---------------------------- MODULE Spec2Model ----------------------------
(***************************************************************************)
(* GOmd: PDF/image -> Markdown conversion service.                         *)
(*                                                                         *)
(* The module models the infrastructure around the extraction call:        *)
(*   - MemoryCache (TTL + LRU eviction) and cacheUtils (lib/cache),        *)
(*   - RateLimiter / withRateLimit (lib/rate-limiter.ts),                  *)
(*   - processFileWithMemoryControl (lib/memory-optimizer.ts),             *)
(*   - convertMultipleOptimized (lib/gemini/optimized-converter.ts),       *)
(*   - the route handlers POST /api/convert and POST /api/convert/stream.  *)
(*                                                                         *)
(* The specifications share the variables:                                 *)
(*   SpecCache : one MemoryCache instance driven by arbitrary calls,       *)
(*   SpecLru   : the call sequence of the LRU unit test, at any timing,    *)
(*   SpecRL    : RateLimiter instances driven by arbitrary calls,          *)
(*   SpecBurst : one RateLimiter, to count the checks it allows,           *)
(*   SpecGoc   : getOrCompute calls that overlap on one MemoryCache,       *)
(*   SpecSize  : every MemoryCache operation, to bound the Map's size,     *)
(*   SpecScore : calculateMarkdownCompleteness on small texts,             *)
(*   SpecKeys  : cacheUtils.getFileHash and generateConversionKey,         *)
(*   SpecMulti : one call of convertMultipleOptimized,                     *)
(*   SpecStream : the response stream of the stream route,                 *)
(*   SpecMem   : calls of processFileWithMemoryControl,                    *)
(*   SpecOverlap : overlapping getOrCompute calls or overlapping requests, *)
(*   Spec      : HTTP requests running through the two route handlers,     *)
(*               interleaved at their await points.                        *)
(***************************************************************************)
EXTENDS Integers, Sequences, FiniteSets, TLC

VARIABLES
    now,             \* the value Date.now() returns (ms)
    cache,           \* MemoryCache.cache: the Map, as a sequence in insertion order
    rateLimitStore,  \* rate-limiter.ts: the module-level Map key -> {count, resetTime}
    last,            \* the library call made last and what it returned
    stored,          \* per key: the last set() of it, and whether the key was since
                     \* deleted, cleared or evicted (history of the calls)
    lru,             \* SpecLru: how far the unit test's call sequence has run
    used,            \* how many of the cache keys the calls have named so far
    ncalls,          \* how many cache calls were made (the budget of SpecCache)
    run,             \* per rate-limit key: the consecutive check() calls of one limiter
    written,         \* per conversion key: the markdown first written to the entry
                     \* that is in the cache now (history of the writes)
    nreq,            \* the number of HTTP requests that have arrived
    fin,             \* the HTTP request that the last step completed, if it did
    goc,             \* the getOrCompute calls that await their compute function
    allowed,         \* SpecBurst: the limiter made, and how many of its checks
                     \* were allowed at each instant (history of the calls)
    mem,             \* SpecMem: the call of processFileWithMemoryControl in
                     \* progress or settled last, with what it has done so far
    multi,           \* SpecMulti: the call of convertMultipleOptimized: its
                     \* locals, the conversions in flight and the results map
    sse,             \* SpecStream: the event stream of one request to the
                     \* stream route: start(), the controller and the reader
    req              \* the HTTP requests in flight: position in the handler and locals

vars == <<now, cache, rateLimitStore, last, stored, lru, used, ncalls, run, written,
          nreq, fin, goc, allowed, mem, multi, sse, req>>

-----------------------------------------------------------------------------
(* Bounds of the model *)

\* the clock advances in steps of TickMs, at most MaxTick times
MaxTick == 2
TickMs == 1000 \div 2

\* SpecCache makes at most MaxCalls calls (this also caps accessCount)
MaxCalls == 5

\* SpecRL: the limiters have maxRequests 1..MaxN
MaxN == 3

\* Spec: the number of HTTP requests, and of those in flight at a time
NReq == 3
MaxInFlight == 2

Null == "null"            \* JavaScript null
Undefined == "undefined"  \* JavaScript undefined / an omitted argument

Min(a, b) == IF a < b THEN a ELSE b
Max(a, b) == IF a > b THEN a ELSE b
Abs(x) == IF x < 0 THEN -x ELSE x
\* Math.ceil(a / b) for b > 0
CeilDiv(a, b) == -((-a) \div b)

-----------------------------------------------------------------------------
(* lib/cache: createHash, the "simple hash implementation for edge runtime" *)

\* TextDecoder().decode on the byte alphabet of the model: a byte below 128
\* is its own code unit; a byte from 192 on is a lead byte that no
\* continuation byte (128..191, absent from the alphabet) follows, and is
\* decoded to U+FFFD
DecodeByte(b) == IF b < 128 THEN b ELSE 65533

\* A 32-bit integer is kept as two 16-bit limbs <<hi, lo>> of its two's
\* complement pattern.  One round of the loop,
\*     hash = ((hash << 5) - hash) + char;  hash = hash & hash;
\* is 31 * hash + char modulo 2^32 (the intermediate values are exact).
Limb == 65536

HashRound(h, char) ==
    LET lo == 31 * h[2] + char
        hi == 31 * h[1] + (lo \div Limb)
    IN  <<hi % Limb, lo % Limb>>

RECURSIVE HashLoop(_, _, _)
HashLoop(str, i, hash) ==
    IF i > Len(str) THEN hash
    ELSE HashLoop(str, i + 1, HashRound(hash, str[i]))

\* Math.abs of the signed 32-bit value, as limbs of the magnitude
AbsInt32(h) ==
    IF h[1] < Limb \div 2 THEN h
    ELSE <<(Limb - 1 - h[1] + (IF h[2] = 0 THEN 1 ELSE 0)) % Limb,
           (Limb - h[2]) % Limb>>

HexDigits == <<"0", "1", "2", "3", "4", "5", "6", "7",
               "8", "9", "a", "b", "c", "d", "e", "f">>

\* Number.prototype.toString(16) of a non-negative integer
RECURSIVE ToHex(_)
ToHex(n) ==
    IF n < 16 THEN <<HexDigits[n + 1]>>
    ELSE Append(ToHex(n \div 16), HexDigits[(n % 16) + 1])

\* String.prototype.padStart(len, "0")
RECURSIVE PadStart(_, _)
PadStart(s, len) == IF Len(s) >= len THEN s ELSE PadStart(<<"0">> \o s, len)

\* toString(16) of a magnitude given as limbs
ToHexLimbs(m) ==
    IF m[1] = 0 THEN ToHex(m[2]) ELSE ToHex(m[1]) \o PadStart(ToHex(m[2]), 4)

\* String.prototype.slice(0, n)
Slice0(s, n) == SubSeq(s, 1, Min(n, Len(s)))

\* createHash(alg).update(str).digest('hex') on a string of code units
Digest(str) ==
    Slice0(PadStart(ToHexLimbs(AbsInt32(HashLoop(str, 1, <<0, 0>>))), 16), 16)

\* cacheUtils.getFileHash(file): the bytes are decoded, then hashed
getFileHash(bytes) ==
    Slice0(Digest([i \in 1..Len(bytes) |-> DecodeByte(bytes[i])]), 16)

\* cacheUtils.generateConversionKey(fileHash) without options
generateConversionKey(fileHash) ==
    <<"conv", fileHash, <<"d", "e", "f", "a", "u", "l", "t">>>>

\* String.prototype.charCodeAt for the characters of the keys
CharCode == [c \in {"k", "e", "y", "1", "2"} |->
                CASE c = "k" -> 107 [] c = "e" -> 101 [] c = "y" -> 121
                  [] c = "1" -> 49 [] c = "2" -> 50]

\* MemoryCache.generateKey(data) for a string, given as its characters
generateKey(data) ==
    Slice0(Digest([i \in 1..Len(data) |-> CharCode[data[i]]]), 16)

-----------------------------------------------------------------------------
(* lib/cache: MemoryCache.  A Map is a sequence of entries in insertion     *)
(* order; Map.set of a present key keeps its place.                         *)

MapHas(c, k) == \E i \in 1..Len(c) : c[i].key = k
MapIndex(c, k) == CHOOSE i \in 1..Len(c) : c[i].key = k
MapGet(c, k) == c[MapIndex(c, k)]
MapKeys(c) == {c[i].key : i \in 1..Len(c)}
MapDelete(c, k) == SelectSeq(c, LAMBDA e : e.key # k)
MapSet(c, k, e) ==
    IF MapHas(c, k) THEN [c EXCEPT ![MapIndex(c, k)] = e] ELSE Append(c, e)

\* MemoryCache.cleanup: the sweep the interval timer runs
cleanup(c, t) == SelectSeq(c, LAMBDA e : ~(t >= e.expiresAt))

\* the for-loop of evictLRU: the first entry, in iteration order, whose
\* lastAccessed is below every earlier one (lruTime starts at Infinity)
LruIndex(c) ==
    CHOOSE i \in 1..Len(c) :
        /\ \A j \in 1..(i - 1) : c[j].lastAccessed > c[i].lastAccessed
        /\ \A j \in (i + 1)..Len(c) : c[j].lastAccessed >= c[i].lastAccessed

\* a plausible slip: room is made only once the Map is over its size
evictLRULate(c, maxSize) ==
    IF Len(c) <= maxSize THEN c
    ELSE MapDelete(c, c[LruIndex(c)].key)

\* MemoryCache.evictLRU (keys are non-empty strings: "if (lruKey)" holds)
evictLRU(c, maxSize) ==
    IF Len(c) < maxSize THEN c
    ELSE IF Len(c) = 0 THEN c
    ELSE MapDelete(c, c[LruIndex(c)].key)

\* the optional argument customTtl: omitted, or <<ttl>>
NoTtl == <<>>

\* MemoryCache.set(key, data, customTtl); "customTtl ?? this.config.ttl"
\* a plausible variant: set() that keeps the entry a key already has
CacheSetIfAbsent(c, cfg, key, data, customTtl, t) ==
    LET ttl == IF customTtl = NoTtl THEN cfg.ttl ELSE customTtl[1]
    IN  IF MapHas(c, key) THEN c
        ELSE MapSet(evictLRU(c, cfg.maxSize), key,
                    [key |-> key, data |-> data, timestamp |-> t,
                     expiresAt |-> t + ttl, accessCount |-> 0, lastAccessed |-> t])

CacheSet(c, cfg, key, data, customTtl, t) ==
    LET ttl == IF customTtl = NoTtl THEN cfg.ttl ELSE customTtl[1]
    IN  MapSet(evictLRU(c, cfg.maxSize), key,
               [key |-> key, data |-> data, timestamp |-> t,
                expiresAt |-> t + ttl, accessCount |-> 0, lastAccessed |-> t])

\* a plausible slip: an entry still served at the instant it expires
ExpiredLate(e, t) == t > e.expiresAt

\* the test "now >= entry.expiresAt" of get and has
Expired(e, t) == t >= e.expiresAt

\* MemoryCache.get(key): the cache afterwards and the value returned
\* (found: the value is an entry's data, not null)
CacheGet(c, key, t) ==
    IF ~MapHas(c, key) THEN [cache |-> c, found |-> FALSE, ret |-> Null]
    ELSE LET entry == MapGet(c, key)
         IN  IF Expired(entry, t)
             THEN [cache |-> MapDelete(c, key), found |-> FALSE, ret |-> Null]
             ELSE [cache |-> MapSet(c, key,
                                    [entry EXCEPT !.accessCount = @ + 1,
                                                  !.lastAccessed = t]),
                   found |-> TRUE, ret |-> entry.data]

\* MemoryCache.has(key)
CacheHas(c, key, t) ==
    IF ~MapHas(c, key) THEN [cache |-> c, ret |-> FALSE]
    ELSE IF Expired(MapGet(c, key), t)
         THEN [cache |-> MapDelete(c, key), ret |-> FALSE]
         ELSE [cache |-> c, ret |-> TRUE]

\* MemoryCache.delete(key)
CacheDelete(c, key) == [cache |-> MapDelete(c, key), ret |-> MapHas(c, key)]

\* history: what a step did to the cache: it wrote an entry, removed
\* entries that had expired ("purge") or had not ("drop"), or updated the
\* access data of an entry ("touch")
CacheOpsOf(c1, c2, setKey) ==
    IF c2 = c1 THEN {}
    ELSE IF setKey # <<>> THEN {"write"}
    ELSE IF Len(c2) < Len(c1)
         THEN IF \A i \in 1..Len(c1) :
                    MapHas(c2, c1[i].key) \/ now >= c1[i].expiresAt
              THEN {"purge"} ELSE {"drop"}
         ELSE {"touch"}


-----------------------------------------------------------------------------
(* lib/rate-limiter.ts: RateLimiter.  The store is the module-level Map     *)
(* that every RateLimiter instance reads and writes.                        *)

\* the x-forwarded-for header, split at the commas; <<>> when it is absent
Headers == {<<>>, <<"ipA", "ipB">>}

\* defaultKeyGenerator: `ip:${forwarded?.split(',')[0] || 'unknown'}`
defaultKeyGenerator(h) ==
    <<"ip", IF h = <<>> \/ h[1] = "" THEN "unknown" ELSE h[1]>>

RLKeys == {defaultKeyGenerator(h) : h \in Headers}

NoEntry == [present |-> FALSE, count |-> 0, resetTime |-> 0]

\* cleanupExpiredEntries
cleanupExpiredEntries(store, t) ==
    [k \in DOMAIN store |->
        IF store[k].present /\ t >= store[k].resetTime THEN NoEntry ELSE store[k]]

\* a plausible slip: one request too many is let through
LimitReachedLate(count, maxRequests) == count > maxRequests

\* the test "existing.count >= this.config.maxRequests"
LimitReached(count, maxRequests) == count >= maxRequests

\* a plausible slip: a refused request starts the window again
StoreWhenRefusedRenewed(store, key, resetTime) ==
    [store EXCEPT ![key].resetTime = resetTime]

\* the store after a refused check(): the entry is read, not written
StoreWhenRefused(store, key, resetTime) == store

\* RateLimiter.check(request) of a limiter with configuration cfg; key is
\* keyGenerator(request), rnd the outcome of "Math.random() < 0.1".
\* Yields the store afterwards and the RateLimitResult.
RateCheck(store, cfg, key, t, rnd) ==
    LET resetTime == t + cfg.windowMs
        s1 == IF rnd THEN cleanupExpiredEntries(store, t) ELSE store
        existing == s1[key]
    IN  IF ~existing.present \/ t >= existing.resetTime
        THEN [store |-> [s1 EXCEPT ![key] =
                            [present |-> TRUE, count |-> 1, resetTime |-> resetTime]],
              ret |-> [success |-> TRUE, limit |-> cfg.maxRequests,
                       remaining |-> cfg.maxRequests - 1,
                       resetTime |-> resetTime, retryAfter |-> <<>>]]
        ELSE IF LimitReached(existing.count, cfg.maxRequests)
        THEN [store |-> StoreWhenRefused(s1, key, resetTime),
              ret |-> [success |-> FALSE, limit |-> cfg.maxRequests,
                       remaining |-> 0, resetTime |-> existing.resetTime,
                       retryAfter |-> <<CeilDiv(existing.resetTime - t, 1000)>>]]
        ELSE [store |-> [s1 EXCEPT ![key].count = @ + 1],
              ret |-> [success |-> TRUE, limit |-> cfg.maxRequests,
                       remaining |-> cfg.maxRequests - (existing.count + 1),
                       resetTime |-> existing.resetTime, retryAfter |-> <<>>]]

\* a plausible slip: reset() that clears the whole store
RateResetAll(store, key) == [k \in DOMAIN store |-> NoEntry]

\* RateLimiter.reset(request)
RateReset(store, key) == [store EXCEPT ![key] = NoEntry]

-----------------------------------------------------------------------------
(* lib/utils: calculateMarkdownCompleteness and analyzeConversionQuality.   *)
(* A text is described by what the scorer reads from it: its length, the    *)
(* numbers of matches of the structure patterns and of the four math        *)
(* patterns, and the number of parts that "\n\n" splits it into.            *)

Text(len, headings, mathBlocks, tables, lists, paragraphs, pat) ==
    [len |-> len, headings |-> headings, mathBlocks |-> mathBlocks,
     tables |-> tables, lists |-> lists, paragraphs |-> paragraphs, pat |-> pat]

EmptyText == Text(0, 0, 0, 0, 0, 1, <<0, 0, 0, 0>>)

\* Math.round of the fraction num / den (den > 0): floor(x + 1/2)
RoundDiv(num, den) == (2 * num + den) \div (2 * den)

\* a plausible slip: the length ratio without its cap
LengthRatioUncapped(len, d0) == len

\* the numerator of Math.min(1, markdown.length / d0) over d0
LengthRatio(len, d0) == Min(len, d0)

\* The four parts of the score of calculateMarkdownCompleteness.  The parts
\* that are fractions (length, math) are kept as numerators over the common
\* denominator den.
ScoreParts(extracted, markdown) ==
    LET d0 == Max(extracted.len, 1)
        dp(i) == IF extracted.pat[i] > 0 THEN extracted.pat[i] ELSE 1
        den == d0 * dp(1) * dp(2) * dp(3) * dp(4)
        \* 3. per pattern found in the extracted text: ratio * 5
        mathPart(i) ==
            IF extracted.pat[i] > 0
            THEN (Min(markdown.pat[i], extracted.pat[i]) * 5) * (den \div dp(i))
            ELSE 0
    IN  [den |-> den,
         \* 1. Math.min(1, markdown.length / Math.max(extracted.length, 1)) * 30
         length |-> (LengthRatio(markdown.len, d0) * 30) * (den \div d0),
         \* 2. the Markdown elements present
         elements |-> (IF markdown.headings > 0 THEN 10 ELSE 0)
                      + (IF markdown.mathBlocks > 0 THEN 15 ELSE 0)
                      + (IF markdown.tables > 0 THEN 8 ELSE 0)
                      + (IF markdown.lists > 0 THEN 7 ELSE 0),
         math |-> mathPart(1) + mathPart(2) + mathPart(3) + mathPart(4),
         \* 4. markdown.includes('\n\n')
         structure |-> IF markdown.paragraphs > 1 THEN 10 ELSE 0]

\* calculateMarkdownCompleteness(extractedText, markdown):
\* Math.min(100, Math.round(score))
calculateMarkdownCompleteness(extracted, markdown) ==
    LET p == ScoreParts(extracted, markdown)
        num == p.length + p.elements * p.den + p.math + p.structure * p.den
    IN  Min(100, RoundDiv(num, p.den))

\* analyzeConversionQuality(extractedText, markdown)
analyzeConversionQuality(extracted, markdown) ==
    LET completeness == calculateMarkdownCompleteness(extracted, markdown)
        structureElements ==
            [headings |-> markdown.headings, paragraphs |-> markdown.paragraphs,
             tables |-> markdown.tables, lists |-> markdown.lists,
             mathBlocks |-> markdown.mathBlocks]
    IN  [completeness |-> completeness,
         mathElementsCount |->
             structureElements.headings + structureElements.paragraphs
             + structureElements.tables + structureElements.lists
             + structureElements.mathBlocks,
         structureElements |-> structureElements,
         qualityLevel |->
             IF completeness >= 90 THEN "excellent"
             ELSE IF completeness >= 75 THEN "good"
             ELSE IF completeness >= 60 THEN "fair"
             ELSE "poor"]

-----------------------------------------------------------------------------
(* app/api/convert/route.ts (withRateLimit + handleConversion) and          *)
(* app/api/convert/stream/route.ts: values and helpers.                     *)
(* The configurations are scaled: rateLimiters.conversion is 10 requests    *)
(* per 15 min, caches.conversionResults holds 50 entries for 1 h, and       *)
(* maxFileSize is 100 MB.                                                   *)

ConversionLimiter == [windowMs |-> TickMs, maxRequests |-> 2]
ConvCacheCfg == [maxSize |-> 1, ttl |-> 2 * TickMs]
ConvOptions == [maxFileSize |-> 2, enableGC |-> TRUE, trackMemory |-> TRUE]

Pdf == "application/pdf"
allowedTypes == {Pdf, "image/jpeg", "image/jpg", "image/png", "image/gif",
                 "image/bmp", "image/webp"}

\* a plausible slip: the validation lets every type through
TypeAllowedAll(type) == TRUE

\* handleConversion: "allowedTypes.indexOf(file.type) === -1" is false
TypeAllowed(type) == type \in allowedTypes

\* stream route: "file.type !== 'application/pdf'" is false
StreamTypeAllowed(type) == type = Pdf

\* formData.get('file'): null, or a File with its bytes and MIME type
NoFile == [present |-> FALSE, bytes |-> <<>>, type |-> ""]
File(bytes, type) == [present |-> TRUE, bytes |-> bytes, type |-> type]
FileSet == {File(<<65>>, Pdf), File(<<200>>, "image/png"),
            File(<<65>>, "text/plain"), File(<<65, 66, 67>>, Pdf)}
\* file.size
FileSize(f) == Len(f.bytes)

ConvKeys == {generateConversionKey(getFileHash(f.bytes)) : f \in FileSet}

\* what converter.convert(file) resolves to: a failure, or a success with
\* the Markdown text and the metadata title
ConvFailure == [success |-> FALSE, markdown |-> EmptyText, title |-> Undefined]
ConvResults ==
    {ConvFailure,
     [success |-> TRUE, title |-> "T",
      markdown |-> Text(40, 1, 1, 0, 2, 3, <<0, 2, 1, 3>>)],
     [success |-> TRUE, title |-> Undefined, markdown |-> EmptyText]}

\* createRateLimitHeaders(result)
createRateLimitHeaders(result) ==
    [limit |-> result.limit, remaining |-> result.remaining,
     reset |-> CeilDiv(result.resetTime, 1000), retryAfter |-> result.retryAfter]

\* a value a handler settles with: a Response, or a thrown Error
\* (headers: <<>>, or <<the rate-limit headers>>)
Json(status, body) ==
    [thrown |-> FALSE, status |-> status, body |-> body, headers |-> <<>>]
Thrown(message) ==
    [thrown |-> TRUE, status |-> 0,
     body |-> [kind |-> "error", error |-> message], headers |-> <<>>]
ErrorBody(message) == [kind |-> "error", error |-> message]
NoResp == Json(0, [kind |-> "none"])

\* the catch block of the handler passed to withRateLimit (POST)
PostCatch(o) == IF o.thrown THEN Json(500, ErrorBody(o.body.error)) ELSE o

\* a plausible slip: only the successful responses get the headers
WithRateLimitTailOk(o, headers) ==
    IF o.thrown THEN Json(500, ErrorBody("Internal server error"))
    ELSE IF o.status = 200 THEN [o EXCEPT !.headers = <<headers>>] ELSE o

\* withRateLimit after the handler settled: the headers are set on its
\* response; a thrown error becomes a 500 response with the headers
WithRateLimitTail(o, headers) ==
    IF o.thrown
    THEN [Json(500, ErrorBody("Internal server error")) EXCEPT !.headers = <<headers>>]
    ELSE [o EXCEPT !.headers = <<headers>>]

\* withRateLimit when check() refused
RateLimitedResponse(result) ==
    [Json(429, [kind |-> "error", error |-> "Rate limit exceeded",
                retryAfter |-> result.retryAfter])
     EXCEPT !.headers = <<createRateLimitHeaders(result)>>]

\* stream route when check() refused: no rate-limit headers
StreamRateLimitedResponse(result) ==
    Json(429, [kind |-> "error", error |-> "Rate limit exceeded",
               retryAfter |-> result.retryAfter])

\* a plausible slip: an entry with empty markdown counts as a miss
TruthyMarkdown(got) ==
    IF got.found THEN got.ret.markdown.len > 0 ELSE FALSE

\* "if (cached)" on what get() returned: an entry's data is an object and
\* truthy, null is falsy
Truthy(got) == got.found

\* the entry handleConversion stores
CachedValue(result, markdown, quality) ==
    [markdown |-> markdown,
     metadata |-> [title |-> IF result.title = Undefined THEN "Untitled"
                             ELSE result.title],
     quality |-> quality]

\* a plausible slip: the wrapper calls the handler whatever check() says
DeniedNever(result) == FALSE

\* "if (!result.success)" of withRateLimit and of the stream route
Denied(result) == ~result.success

\* the bodies of the 200 responses of handleConversion
SuccessBody(markdown, title, quality, fromCache) ==
    [kind |-> "success", success |-> TRUE, markdown |-> markdown,
     title |-> title, qualityAnalysis |-> quality, fromCache |-> fromCache]

\* a plausible slip: the result is stored before the success test
ConvertOutcomeEager(c, cacheKey, conversionResult, t) ==
    LET markdown == conversionResult.markdown
        qualityAnalysis == analyzeConversionQuality(markdown, markdown)
        c2 == CacheSet(c, ConvCacheCfg, cacheKey,
                       CachedValue(conversionResult, markdown, qualityAnalysis),
                       NoTtl, t)
    IN  IF ~conversionResult.success
        THEN [cache |-> c2, resp |-> Json(500, ErrorBody("conversion failed"))]
        ELSE [cache |-> c2,
              resp |-> Json(200, SuccessBody(markdown, conversionResult.title,
                                             qualityAnalysis, FALSE))]

\* the processor of handleConversion once converter.convert(file) resolved:
\* the cache afterwards and the response.  sampleText is the first 1000
\* characters of the markdown: all of it, the texts here being shorter.
ConvertOutcome(c, cacheKey, conversionResult, t) ==
    IF ~conversionResult.success
    THEN [cache |-> c, resp |-> Json(500, ErrorBody("conversion failed"))]
    ELSE LET markdown == conversionResult.markdown
             sampleText == markdown
             qualityAnalysis == analyzeConversionQuality(sampleText, markdown)
         IN  [cache |-> CacheSet(c, ConvCacheCfg, cacheKey,
                                 CachedValue(conversionResult, markdown,
                                             qualityAnalysis),
                                 NoTtl, t),
              resp |-> Json(200, SuccessBody(markdown, conversionResult.title,
                                             qualityAnalysis, FALSE))]

\* the server-sent events of the stream route
Ev(event, progress) ==
    [event |-> event, progress |-> progress, markdown |-> EmptyText,
     fromCache |-> FALSE]
EvResult(markdown, fromCache) ==
    [event |-> "result", progress |-> -1, markdown |-> markdown,
     fromCache |-> fromCache]
StreamResponse == Json(200, [kind |-> "stream"])

\* "file.size >= 20 * 1024 * 1024", scaled to 2 bytes
LargeFile(f) == FileSize(f) >= 2


NoRl == [success |-> FALSE, limit |-> 0, remaining |-> 0, resetTime |-> 0,
         retryAfter |-> <<>>]

IdleReq ==
    [pc |-> "idle", ep |-> "none", rl |-> NoRl, file |-> NoFile,
     ckey |-> <<>>, resp |-> NoResp, events |-> <<>>, closes |-> 0,
     \* history of the request: the phases it passed, what its steps did to
     \* the cache and to the rate-limit store, the live entry its lookup
     \* found, the markdown first written to that entry, whether no
     \* other request was in flight when it arrived, whether the cache held
     \* no entry when it arrived, and whether a request that had missed the
     \* same key was still in flight at its lookup
     trace |-> <<>>, cacheOps |-> {}, rlConsumed |-> FALSE, rlChanged |-> FALSE,
     seen |-> <<>>, orig |-> <<>>, alone |-> FALSE, empty |-> FALSE,
     peer |-> FALSE]

-----------------------------------------------------------------------------
(* State shared by the specifications *)

NoCall == [op |-> "none", key |-> Null, ret |-> Null]
NeverSet == [valid |-> FALSE, data |-> Null, t |-> 0, ttl |-> 0]
NoRun == [live |-> FALSE, cfg |-> Null, n |-> 0]
NoLimiter == [made |-> FALSE, windowMs |-> 0, maxRequests |-> 0,
              at |-> [k \in RLKeys |-> [i \in 0..MaxTick |-> 0]]]

\* no call of processFileWithMemoryControl yet.  Of a call: where it stands,
\* its arguments, whether global.gc exists, whether fileBuffer.buffer is
\* set, the tracker's labels, how it settled; and its history: the calls of
\* fileBuffer.load, file.arrayBuffer, processor, fileBuffer.clear and
\* global.gc it made, and whether the finally block issued global.gc()
NoMemCall ==
    [pc |-> "idle", size |-> 0, maxFileSize |-> 0, enableGC |-> FALSE,
     trackMemory |-> FALSE, gcExposed |-> FALSE, buffer |-> FALSE,
     labels |-> <<>>, outcome |-> "none", ret |-> Null,
     loadCalls |-> 0, reads |-> 0, procs |-> 0, clears |-> 0, gcs |-> 0,
     hinted |-> FALSE]

\* no call of convertMultipleOptimized yet.  Of a call: where it stands,
\* the sorted files, maxConcurrentFiles, the locals queue and processing
\* (tasks by their place in the sorted files), the tasks whose conversion is
\* in flight, those that have settled, and the results map by file name
NoMultiCall ==
    [pc |-> "idle", files |-> <<>>, maxConcurrentFiles |-> 0, queue |-> <<>>,
     processing |-> {}, running |-> {}, settled |-> {}, results |-> {}]

\* no event stream yet.  Of a stream: where start() stands; the stream's
\* state and the controller's closeRequested flag and queue; whether the
\* reader has a read pending; whether start() rejected; and the history:
\* the events enqueued (sent) and those the reader has received (got)
NoStream ==
    [pc |-> "idle", state |-> "readable", closeRequested |-> FALSE,
     queue |-> <<>>, reading |-> FALSE, threw |-> FALSE, rejected |-> FALSE,
     sent |-> <<>>, got |-> <<>>]

KeySeq == <<"key1", "key2", "key3", "key4">>
CKeys == {KeySeq[i] : i \in 1..Len(KeySeq)}
KeyNo(k) == CHOOSE i \in 1..Len(KeySeq) : KeySeq[i] = k
CValues == {"value1", "value2"}
CTtls == {NoTtl, <<TickMs>>}

InitIdle ==
    /\ now = 0
    /\ cache = <<>>
    /\ rateLimitStore = [k \in RLKeys |-> NoEntry]
    /\ last = NoCall
    /\ stored = [k \in CKeys |-> NeverSet]
    /\ lru = 0
    /\ used = 0
    /\ ncalls = 0
    /\ run = [k \in RLKeys |-> NoRun]
    /\ written = [k \in ConvKeys |-> <<>>]
    /\ nreq = 0
    /\ fin = IdleReq
    /\ goc = <<>>
    /\ allowed = NoLimiter
    /\ mem = NoMemCall
    /\ multi = NoMultiCall
    /\ sse = NoStream
    /\ req = [r \in 1..MaxInFlight |-> IdleReq]

\* time passes; "last" describes a call made at the current instant
Tick ==
    /\ now < MaxTick * TickMs
    /\ now' = now + TickMs
    /\ last' = NoCall
    /\ UNCHANGED <<cache, rateLimitStore, stored, lru, used, ncalls, run, written, nreq, fin, goc, allowed, mem, multi, sse, req>>

-----------------------------------------------------------------------------
(* SpecCache: one MemoryCache, constructed with maxSize 2 and ttl 1000 ms,  *)
(* called with arbitrary keys, values and ttls at arbitrary times.          *)

SmallCacheCfg == [maxSize |-> 2, ttl |-> 2 * TickMs]
\* one key more than the cache holds
SmallKeys == {KeySeq[i] : i \in 1..(SmallCacheCfg.maxSize + 1)}

\* the calls name the keys in the order key1, key2, ...: a call may name a
\* key named before, or the next new one
Nameable(k) == KeyNo(k) <= used + 1
Named(k) == Max(used, KeyNo(k))

\* history of the calls: what the set() of a key stored, until the key is
\* deleted, cleared or evicted by the set() of another key
StoredAfterSet(cfg, c2, k, v, ttl) ==
    [x \in CKeys |->
        IF x = k
        THEN [valid |-> TRUE, data |-> v, t |-> now,
              ttl |-> IF ttl = NoTtl THEN cfg.ttl ELSE ttl[1]]
        ELSE IF MapHas(cache, x) /\ ~MapHas(c2, x)
             THEN NeverSet
             ELSE stored[x]]

Call ==
    /\ ncalls < MaxCalls
    /\ ncalls' = ncalls + 1
    /\ UNCHANGED <<now, rateLimitStore, lru, run, written, nreq, fin, goc, allowed, mem, multi, sse, req>>

CSet(k, v, ttl) ==
    LET c2 == CacheSet(cache, SmallCacheCfg, k, v, ttl, now)
    IN  /\ Call
        /\ Nameable(k)
        /\ used' = Named(k)
        /\ cache' = c2
        /\ last' = [op |-> "set", key |-> k, ret |-> Undefined]
        /\ stored' = StoredAfterSet(SmallCacheCfg, c2, k, v, ttl)

CGet(k) ==
    LET r == CacheGet(cache, k, now)
    IN  /\ Call
        /\ Nameable(k)
        /\ used' = Named(k)
        /\ cache' = r.cache
        /\ last' = [op |-> "get", key |-> k, ret |-> r.ret]
        /\ UNCHANGED stored

CHas(k) ==
    LET r == CacheHas(cache, k, now)
    IN  /\ Call
        /\ Nameable(k)
        /\ used' = Named(k)
        /\ cache' = r.cache
        /\ last' = [op |-> "has", key |-> k, ret |-> r.ret]
        /\ UNCHANGED stored

CDelete(k) ==
    LET r == CacheDelete(cache, k)
    IN  /\ Call
        /\ Nameable(k)
        /\ used' = Named(k)
        /\ cache' = r.cache
        /\ last' = [op |-> "delete", key |-> k, ret |-> r.ret]
        /\ stored' = [stored EXCEPT ![k] = NeverSet]

\* MemoryCache.clear
CClear ==
    /\ Call
    /\ cache' = <<>>
    /\ last' = [op |-> "clear", key |-> Null, ret |-> Undefined]
    /\ stored' = [k \in CKeys |-> NeverSet]
    /\ UNCHANGED used

\* the callback of startCleanupTimer's setInterval
CSweep ==
    /\ Call
    /\ cache' = cleanup(cache, now)
    /\ last' = [op |-> "sweep", key |-> Null, ret |-> Undefined]
    /\ UNCHANGED <<stored, used>>

NextCache ==
    \/ Tick
    \/ \E k \in SmallKeys, v \in CValues, ttl \in CTtls : CSet(k, v, ttl)
    \/ \E k \in SmallKeys : CGet(k)
    \/ \E k \in SmallKeys : CHas(k)
    \/ \E k \in SmallKeys : CDelete(k)
    \/ CClear
    \/ CSweep

SpecCache == InitIdle /\ [][NextCache]_vars

(* C9: after set(k, v, ttl) at time t, and no delete, clear, overwrite or  *)
(* eviction of k since, a get(k) made before t + ttl returns v, and a       *)
(* get(k) made at or after t + ttl returns null and leaves k removed,       *)
(* whether or not the sweep has run.                                        *)
C9_GetWithinTtl ==
    (last.op = "get" /\ stored[last.key].valid) =>
        LET s == stored[last.key]
        IN  IF now < s.t + s.ttl
            THEN last.ret = s.data
            ELSE last.ret = Null /\ ~MapHas(cache, last.key)

\* a get at or after the expiry of an entry that was set and never removed
\* by a call
C9_Witness ==
    /\ last.op = "get"
    /\ stored[last.key].valid
    /\ now >= stored[last.key].t + stored[last.key].ttl
    /\ last.ret = Null

(* C11: set(k, v2) on a key k that is present replaces k's value, resets    *)
(* its creation time, its expiry (now + ttl) and its access count, and      *)
(* leaves every other entry present and unchanged, also at capacity.        *)
C11_OverwriteKeepsOthers ==
    [][(/\ last'.op = "set"
        /\ ncalls' = ncalls + 1
        /\ MapHas(cache, last'.key))
       => LET k == last'.key
              e == MapGet(cache', k)
          IN  /\ e.data = stored'[k].data
              /\ e.timestamp = now
              /\ e.expiresAt = now + stored'[k].ttl
              /\ e.accessCount = 0
              /\ \A i \in 1..Len(cache) :
                    cache[i].key # k =>
                        /\ MapHas(cache', cache[i].key)
                        /\ MapGet(cache', cache[i].key) = cache[i]]_vars

(* C27: set(k, v) of a key k that is not in the Map, made while the Map     *)
(* holds an entry that has expired, removes no entry that has not expired.  *)
C27_ExpiredEvictedFirst ==
    [][(/\ last'.op = "set"
        /\ ncalls' = ncalls + 1
        /\ ~MapHas(cache, last'.key)
        /\ \E i \in 1..Len(cache) : Expired(cache[i], now))
       => \A i \in 1..Len(cache) :
              ~Expired(cache[i], now) => MapHas(cache', cache[i].key)]_vars

-----------------------------------------------------------------------------
(* SpecGoc: one MemoryCache (maxSize 2, ttl 1000 ms) on which set and       *)
(* getOrCompute are called with the keys 'key1' and 'key2'; the compute     *)
(* functions resolve or reject at arbitrary later times.  Here a key of the *)
(* Map is the sequence of its characters.                                   *)

GocNames == {KeySeq[1], KeySeq[2]}
KeyChars == [k \in GocNames |->
                IF k = KeySeq[1] THEN <<"k", "e", "y", "1">>
                ELSE <<"k", "e", "y", "2">>]

\* what a compute function resolves to
GocValues == {"computed-value", Null}

\* a plausible slip: whatever get() returned is taken for a cached value
NotNullAlways(v) == TRUE

\* getOrCompute: "cached !== null"
NotNull(v) == v # Null

\* the entry of key k in cache c if it has not expired at time t
LiveData(c, k, t) ==
    IF MapHas(c, k)
    THEN IF t < MapGet(c, k).expiresAt THEN <<MapGet(c, k).data>> ELSE <<>>
    ELSE <<>>

GocStep ==
    UNCHANGED <<now, rateLimitStore, stored, lru, used, run, written, nreq,
                fin, allowed, mem, multi, sse, req>>

GocCall ==
    /\ ncalls < MaxCalls
    /\ ncalls' = ncalls + 1
    /\ GocStep

\* cache.set(k, v, ttl)
GSet(k, v, ttl) ==
    /\ GocCall
    /\ cache' = CacheSet(cache, SmallCacheCfg, KeyChars[k], v, ttl, now)
    /\ last' = [op |-> "set", key |-> k, ret |-> Undefined]
    /\ UNCHANGED goc

\* cache.getOrCompute(k, computeFn, ttl) is called and runs up to
\* "await computeFn()", or returns the cached value
GCall(k, ttl) ==
    LET key == generateKey(KeyChars[k])
        r == CacheGet(cache, key, now)
        cached == r.ret
        call == [k |-> k, key |-> key, ttl |-> ttl,
                 \* history of the call: the live values that k and the
                 \* hashed key held when it was made, what it did to the
                 \* cache, and whether a call for the same key was pending
                 \* while the cache had no entry for it
                 held |-> LiveData(cache, KeyChars[k], now),
                 seen |-> LiveData(cache, key, now),
                 ops |-> CacheOpsOf(cache, r.cache, <<>>),
                 overlap |-> /\ ~MapHas(cache, key)
                             /\ \E i \in 1..Len(goc) : goc[i].key = key]
    IN  /\ GocCall
        /\ Len(goc) < MaxInFlight
        /\ cache' = r.cache
        /\ IF NotNull(cached)
           THEN /\ last' = [op |-> "getOrCompute", key |-> k, ret |-> cached,
                            computed |-> FALSE, thrown |-> FALSE, call |-> call]
                /\ UNCHANGED goc
           ELSE /\ last' = [op |-> "computeFn", key |-> k, ret |-> Undefined]
                /\ goc' = Append(goc, call)

\* the sequence s without its i-th element
Without(s, i) == SubSeq(s, 1, i - 1) \o SubSeq(s, i + 1, Len(s))

\* computeFn() of the i-th pending call resolves with result
GResolve(i, result) ==
    LET call == goc[i]
        c2 == CacheSet(cache, SmallCacheCfg, call.key, result, call.ttl, now)
    IN  /\ i \in 1..Len(goc)
        /\ cache' = c2
        /\ last' = [op |-> "getOrCompute", key |-> call.k, ret |-> result,
                    computed |-> TRUE, thrown |-> FALSE,
                    \* history: its set() found the Map full
                    full |-> Len(cache) >= SmallCacheCfg.maxSize,
                    call |-> [call EXCEPT !.ops = @ \cup CacheOpsOf(cache, c2, call.key)]]
        /\ goc' = Without(goc, i)
        /\ UNCHANGED ncalls
        /\ GocStep

\* computeFn() of the i-th pending call rejects with error
GReject(i, error) ==
    LET call == goc[i]
    IN  /\ i \in 1..Len(goc)
        /\ last' = [op |-> "getOrCompute", key |-> call.k, ret |-> error,
                    computed |-> TRUE, thrown |-> TRUE, call |-> call]
        /\ goc' = Without(goc, i)
        /\ UNCHANGED <<cache, ncalls>>
        /\ GocStep

GocErrors == {"compute failed"}

NextGoc ==
    \/ Tick
    \/ \E k \in GocNames : GSet(k, "value1", NoTtl)
    \/ \E k \in GocNames : GCall(k, NoTtl)
    \/ \E i \in 1..MaxInFlight, v \in GocValues : GResolve(i, v)
    \/ \E i \in 1..MaxInFlight, e \in GocErrors : GReject(i, e)

SpecGoc == InitIdle /\ [][NextGoc]_vars

\* the getOrCompute call that has just returned or thrown
Returned == last.op = "getOrCompute"

(* C12: if key k holds an unexpired value v stored with set(k, v), then     *)
(* getOrCompute(k, f) returns v and does not invoke f.                      *)
C12_ReturnsStoredValue ==
    /\ \A i \in 1..Len(goc) : goc[i].held = <<>>
    /\ (Returned /\ last.call.held # <<>>) =>
           /\ ~last.computed
           /\ last.ret = last.call.held[1]

(* C13: a getOrCompute call made after an earlier call for the same key    *)
(* resolved, and before the entry that call stored expires or is evicted,   *)
(* does not invoke its compute function and returns the value the earlier   *)
(* call returned, whatever that value is.                                   *)
C13_SecondCallUsesCache ==
    /\ \A i \in 1..Len(goc) : goc[i].seen = <<>>
    /\ (Returned /\ last.call.seen # <<>>) =>
           /\ ~last.computed
           /\ last.ret = last.call.seen[1]

(* C14 as stated: when the compute function rejects, getOrCompute rejects  *)
(* with the same error and the call has left the cache unchanged.           *)
C14_RejectLeavesCacheUnchanged ==
    (Returned /\ last.thrown) =>
        /\ last.ret \in GocErrors
        /\ last.call.ops = {}

(* C14: when the compute function rejects, getOrCompute rejects with the    *)
(* same error and has stored no entry: all the call can have done to the    *)
(* cache is that its lookup removed the expired entry of its key, or        *)
(* updated the access data of an unexpired entry of its key holding null;   *)
(* and a call that finds no unexpired entry for its key invokes its compute *)
(* function, so after a rejection the next call computes again.             *)
C14_RejectStoresNothing ==
    /\ (Returned /\ last.thrown) =>
           /\ last.ret \in GocErrors
           /\ last.computed
           /\ last.call.ops \subseteq {"purge", "touch"}
           /\ ("touch" \in last.call.ops) => last.call.seen = <<Null>>
    /\ (Returned /\ last.call.seen = <<>>) => last.computed

\* a call whose lookup removed the expired entry of its key was rejected
C14_Witness ==
    /\ Returned
    /\ last.thrown
    /\ last.call.ops = {"purge"}
    /\ ~MapHas(cache, last.call.key)

-----------------------------------------------------------------------------
(* SpecSize: one MemoryCache (maxSize 2, ttl 1000 ms) on which every        *)
(* operation is called: set, get, has, delete, clear and getOrCompute with  *)
(* overlapping compute functions, and the sweep of the cleanup timer.  The  *)
(* keys of the Map are 'key1', 'key2' and the two keys that generateKey     *)
(* makes of them: twice as many as the Map holds.                           *)

SizeKeys == {KeyChars[k] : k \in GocNames}
                \cup {generateKey(KeyChars[k]) : k \in GocNames}

\* cache.get(key)
GGet(key) ==
    LET r == CacheGet(cache, key, now)
    IN  /\ GocCall
        /\ cache' = r.cache
        /\ last' = [op |-> "get", key |-> key, ret |-> r.ret]
        /\ UNCHANGED goc

\* cache.has(key)
GHas(key) ==
    LET r == CacheHas(cache, key, now)
    IN  /\ GocCall
        /\ cache' = r.cache
        /\ last' = [op |-> "has", key |-> key, ret |-> r.ret]
        /\ UNCHANGED goc

\* cache.delete(key)
GDelete(key) ==
    LET r == CacheDelete(cache, key)
    IN  /\ GocCall
        /\ cache' = r.cache
        /\ last' = [op |-> "delete", key |-> key, ret |-> r.ret]
        /\ UNCHANGED goc

\* cache.clear()
GClear ==
    /\ GocCall
    /\ cache' = <<>>
    /\ last' = [op |-> "clear", key |-> Null, ret |-> Undefined]
    /\ UNCHANGED goc

\* the callback of startCleanupTimer's setInterval
GSweep ==
    /\ GocCall
    /\ cache' = cleanup(cache, now)
    /\ last' = [op |-> "sweep", key |-> Null, ret |-> Undefined]
    /\ UNCHANGED goc

NextSize ==
    \/ Tick
    \/ \E k \in GocNames : GSet(k, "value1", NoTtl)
    \/ \E k \in GocNames : GCall(k, NoTtl)
    \/ \E i \in 1..MaxInFlight, v \in GocValues : GResolve(i, v)
    \/ \E i \in 1..MaxInFlight, e \in GocErrors : GReject(i, e)
    \/ \E key \in SizeKeys : GGet(key)
    \/ \E key \in SizeKeys : GHas(key)
    \/ \E key \in SizeKeys : GDelete(key)
    \/ GClear
    \/ GSweep

SpecSize == InitIdle /\ [][NextSize]_vars

-----------------------------------------------------------------------------
(* SpecLru: the unit test "should evict LRU when cache is full" on its      *)
(* cache (maxSize 3, ttl 1000 ms): set key1, set key2, set key3, get key1,  *)
(* set key4, the clock advancing, or not, between any two calls.            *)

TestMaxSize == 3
TestCacheCfg == [maxSize |-> TestMaxSize, ttl |-> 2 * TickMs]

NoneExpired(c, t) == \A i \in 1..Len(c) : ~Expired(c[i], t)

\* the key the call after lru calls sets (call 4 is the get)
LruKey == IF lru < 3 THEN KeySeq[lru + 1] ELSE KeySeq[4]

LruSet(v, ttl) ==
    /\ lru \in {0, 1, 2, 4}
    /\ lru = 4 => NoneExpired(cache, now)
    /\ cache' = CacheSet(cache, TestCacheCfg, LruKey, v, ttl, now)
    /\ last' = [op |-> "set", key |-> LruKey, ret |-> Undefined]
    /\ lru' = lru + 1
    /\ UNCHANGED <<now, rateLimitStore, stored, used, ncalls, run, written, nreq, fin, goc, allowed, mem, multi, sse, req>>

LruGet ==
    /\ lru = 3
    /\ NoneExpired(cache, now)
    /\ cache' = CacheGet(cache, KeySeq[1], now).cache
    /\ last' = [op |-> "get", key |-> KeySeq[1],
                ret |-> CacheGet(cache, KeySeq[1], now).ret]
    /\ lru' = lru + 1
    /\ UNCHANGED <<now, rateLimitStore, stored, used, ncalls, run, written, nreq, fin, goc, allowed, mem, multi, sse, req>>

NextLru ==
    \/ Tick
    \/ \E v \in CValues, ttl \in CTtls : LruSet(v, ttl)
    \/ LruGet

SpecLru == InitIdle /\ [][NextLru]_vars

(* C10: with key1, key2, key3 set in that order and none expired, get(key1) *)
(* followed by set(key4) evicts exactly key2: key1, key3 and key4 are       *)
(* present afterwards, for every timing of the calls.                       *)
C10_EvictsKey2 ==
    lru = 5 => MapKeys(cache) = {KeySeq[1], KeySeq[3], KeySeq[4]}

-----------------------------------------------------------------------------
(* SpecRL: RateLimiter instances with maxRequests 1..MaxN and windows of    *)
(* 500 ms and 1500 ms, all on the one store, called at arbitrary times.     *)

RLCfgs == [windowMs : {TickMs, 3 * TickMs}, maxRequests : 1..MaxN]

\* history of the calls on a key: the check() calls that one limiter made in
\* a row, from a key without an entry on, inside the window the first opened
RunAfterCheck(cfg, key) ==
    IF ~rateLimitStore[key].present
    THEN [live |-> TRUE, cfg |-> cfg, n |-> 1]
    ELSE IF /\ run[key].live
            /\ run[key].cfg = cfg
            /\ now < rateLimitStore[key].resetTime
         THEN [run[key] EXCEPT !.n = Min(@ + 1, MaxN + 2)]
         ELSE NoRun

\* the outcomes of "Math.random() < 0.1" that make a difference: the cleanup
\* is a no-op unless some entry's window has passed
RndChoices ==
    IF cleanupExpiredEntries(rateLimitStore, now) = rateLimitStore
    THEN {FALSE} ELSE BOOLEAN

RCheck(cfg, h, rnd) ==
    LET key == defaultKeyGenerator(h)
        r == RateCheck(rateLimitStore, cfg, key, now, rnd)
    IN  /\ rateLimitStore' = r.store
        /\ last' = [op |-> "check", key |-> key, cfg |-> cfg, ret |-> r.ret]
        /\ run' = [run EXCEPT ![key] = RunAfterCheck(cfg, key)]
        /\ UNCHANGED <<now, cache, stored, lru, used, ncalls, written, nreq, fin, goc, allowed, mem, multi, sse, req>>

\* reset(request) of any of the limiters: the configuration plays no part
RReset(h) ==
    LET key == defaultKeyGenerator(h)
    IN  /\ rateLimitStore' = RateReset(rateLimitStore, key)
        /\ last' = [op |-> "reset", key |-> key, ret |-> Undefined]
        /\ run' = [run EXCEPT ![key] = NoRun]
        /\ UNCHANGED <<now, cache, stored, lru, used, ncalls, written, nreq, fin, goc, allowed, mem, multi, sse, req>>

NextRL ==
    \/ Tick
    \/ \E cfg \in RLCfgs, h \in Headers, rnd \in RndChoices : RCheck(cfg, h, rnd)
    \/ \E h \in Headers : RReset(h)

SpecRL == InitIdle /\ [][NextRL]_vars

(* C2: for a limiter with maxRequests N and a key without an entry, the     *)
(* first N check() calls made in a row inside one window succeed with       *)
(* remaining N-1, ..., 0, and the (N+1)-th is refused with remaining 0 and  *)
(* retryAfter > 0.                                                          *)
C2_WindowQuota ==
    (last.op = "check" /\ run[last.key].live) =>
        LET n == run[last.key].n
            N == last.cfg.maxRequests
            r == last.ret
        IN  /\ n <= N => r.success /\ r.remaining = N - n
            /\ n = N + 1 =>
                 /\ ~r.success
                 /\ r.remaining = 0
                 /\ r.retryAfter # <<>>
                 /\ r.retryAfter[1] > 0

\* the (N+1)-th call in a row of a limiter with N >= 2 is refused
C2_Witness ==
    /\ last.op = "check"
    /\ run[last.key].live
    /\ last.cfg.maxRequests >= 2
    /\ run[last.key].n = last.cfg.maxRequests + 1
    /\ ~last.ret.success

\* the key has no live window at time t: never seen or reset (no entry), or
\* the resetTime of its entry has passed
NoLiveWindow(store, key, t) ==
    IF store[key].present THEN t >= store[key].resetTime ELSE TRUE

(* C16: a check() for a key without a live window (never seen, window       *)
(* passed, or reset) succeeds with remaining = maxRequests - 1 and opens a  *)
(* window with count 1 and resetTime = now + windowMs; a reset() leaves     *)
(* the entry of every other key as it was.                                  *)
C16_FreshWindow ==
    [][/\ (last'.op = "check" /\ NoLiveWindow(rateLimitStore, last'.key, now)) =>
             LET r == last'.ret
                 cfg == last'.cfg
             IN  /\ r.success
                 /\ r.remaining = cfg.maxRequests - 1
                 /\ r.limit = cfg.maxRequests
                 /\ r.resetTime = now + cfg.windowMs
                 /\ rateLimitStore'[last'.key] =
                        [present |-> TRUE, count |-> 1,
                         resetTime |-> now + cfg.windowMs]
       /\ last'.op = "reset" =>
             /\ ~rateLimitStore'[last'.key].present
             /\ \A k \in RLKeys \ {last'.key} :
                    rateLimitStore'[k] = rateLimitStore[k]]_vars

\* a check() has opened a new window over the entry of a passed one, while
\* the other key has a live window
C16_Witness ==
    /\ last.op = "check"
    /\ last.ret.success
    /\ last.ret.remaining = last.cfg.maxRequests - 1
    /\ rateLimitStore[last.key].count = 1
    /\ ~run[last.key].live
    /\ \E k \in RLKeys \ {last.key} :
           rateLimitStore[k].present /\ now < rateLimitStore[k].resetTime

\* a reset() of one key while the other has an entry
C16_WitnessReset ==
    /\ last.op = "reset"
    /\ \E k \in RLKeys \ {last.key} : rateLimitStore[k].present

(* C17: a check() that denies returns retryAfter = the time left until the  *)
(* window's resetTime, rounded up to whole seconds; it is at least 1 and at *)
(* most ceil(windowMs / 1000) of the limiter that was asked.                *)
C17_RetryAfterWithinWindow ==
    (last.op = "check" /\ ~last.ret.success) =>
        /\ last.ret.retryAfter # <<>>
        /\ last.ret.retryAfter[1] =
               CeilDiv(rateLimitStore[last.key].resetTime - now, 1000)
        /\ last.ret.retryAfter[1] >= 1
        /\ last.ret.retryAfter[1] <= CeilDiv(last.cfg.windowMs, 1000)

(* C29: a check() or reset() made through one limiter leaves the result of *)
(* a check() of every other limiter for the same key as it was: the check   *)
(* another limiter would make at that instant returns the same after the    *)
(* call as before it.  (The model does not record which limiter a reset()   *)
(* is called on: the statement is taken for the limiter that suits best.)   *)
C29_LimitersIndependent ==
    [][(last'.op \in {"check", "reset"}) =>
          \E cfgA \in (IF last'.op = "check" THEN {last'.cfg} ELSE RLCfgs) :
              \A cfgB \in RLCfgs \ {cfgA} :
                  RateCheck(rateLimitStore', cfgB, last'.key, now, FALSE).ret
                      = RateCheck(rateLimitStore, cfgB, last'.key, now, FALSE).ret]_vars

(* C30: a check() for a key whose window is live leaves the resetTime of    *)
(* the key's entry as it was; if it succeeds the entry's count has grown by *)
(* exactly 1, if it is refused the entry is unchanged.                      *)
C30_LiveWindowKept ==
    [][(last'.op = "check" /\ ~NoLiveWindow(rateLimitStore, last'.key, now)) =>
          LET before == rateLimitStore[last'.key]
              after == rateLimitStore'[last'.key]
          IN  /\ after.present
              /\ after.resetTime = before.resetTime
              /\ last'.ret.resetTime = before.resetTime
              /\ IF last'.ret.success
                 THEN after.count = before.count + 1
                 ELSE after = before]_vars

\* a check() has been refused some time after the window was opened: the
\* entry still has the resetTime of the window, which the result reports
C30_Witness ==
    /\ last.op = "check"
    /\ ~last.ret.success
    /\ now > 0
    /\ rateLimitStore[last.key].present
    /\ now < rateLimitStore[last.key].resetTime
    /\ rateLimitStore[last.key].resetTime < now + last.cfg.windowMs
    /\ last.ret.resetTime = rateLimitStore[last.key].resetTime

-----------------------------------------------------------------------------
(* SpecBurst: one RateLimiter, constructed with a window of 500 or 1000 ms  *)
(* and maxRequests 1..MaxN, whose check() is called at arbitrary times for  *)
(* two identifiers; reset() is never called.                                *)

BurstCfgs == [windowMs : {TickMs, 2 * TickMs}, maxRequests : 1..MaxN]

\* new RateLimiter(cfg)
BNew(cfg) ==
    /\ ~allowed.made
    /\ allowed' = [NoLimiter EXCEPT !.made = TRUE, !.windowMs = cfg.windowMs,
                                    !.maxRequests = cfg.maxRequests]
    /\ last' = [op |-> "new", key |-> Null, ret |-> Undefined]
    /\ UNCHANGED <<now, cache, rateLimitStore, stored, lru, used, ncalls, run,
                   written, nreq, fin, goc, mem, multi, sse, req>>

\* limiter.check(request); history: the allowed checks of the key at this
\* instant
BCheck(h, rnd) ==
    LET key == defaultKeyGenerator(h)
        cfg == [windowMs |-> allowed.windowMs, maxRequests |-> allowed.maxRequests]
        r == RateCheck(rateLimitStore, cfg, key, now, rnd)
    IN  /\ allowed.made
        /\ rateLimitStore' = r.store
        /\ last' = [op |-> "check", key |-> key, cfg |-> cfg, ret |-> r.ret]
        /\ allowed' = IF r.ret.success
                      THEN [allowed EXCEPT !.at[key][now \div TickMs] = @ + 1]
                      ELSE allowed
        /\ UNCHANGED <<now, cache, stored, lru, used, ncalls, run, written, nreq,
                       fin, goc, mem, multi, sse, req>>

NextBurst ==
    \/ Tick
    \/ \E cfg \in BurstCfgs : BNew(cfg)
    \/ \E h \in Headers, rnd \in RndChoices : BCheck(h, rnd)

SpecBurst == InitIdle /\ [][NextBurst]_vars

\* the number of allowed checks counted in f at the instants i..j
RECURSIVE AllowedIn(_, _, _)
AllowedIn(f, i, j) == IF i > j THEN 0 ELSE f[i] + AllowedIn(f, i + 1, j)

\* the spans of instants i..j that last at most windowMs
Spans(windowMs) ==
    {s \in (0..MaxTick) \X (0..MaxTick) :
        s[1] <= s[2] /\ (s[2] - s[1]) * TickMs <= windowMs}

(* C18: through one limiter, without reset(), the allowed checks of one     *)
(* identifier in any time span of at most windowMs number at most           *)
(* 2 x maxRequests (more than maxRequests is possible: C18_Witness).        *)
C18_AtMostTwiceTheQuota ==
    \A k \in RLKeys : \A s \in Spans(allowed.windowMs) :
        AllowedIn(allowed.at[k], s[1], s[2]) <= 2 * allowed.maxRequests

\* a burst astride a window boundary: 2 x maxRequests allowed checks of one
\* identifier in a span of windowMs, for a limiter with maxRequests >= 2
C18_Witness ==
    /\ allowed.made
    /\ allowed.maxRequests >= 2
    /\ \E k \in RLKeys : \E s \in Spans(allowed.windowMs) :
           /\ AllowedIn(allowed.at[k], s[1], s[2]) = 2 * allowed.maxRequests
           /\ AllowedIn(allowed.at[k], s[1], s[2]) > allowed.maxRequests

-----------------------------------------------------------------------------
(* SpecScore: calculateMarkdownCompleteness applied to texts of up to       *)
(* MaxLen length units with up to MaxPat matches of each math pattern, any  *)
(* of the four Markdown elements present or not, one paragraph or two.  A   *)
(* text of length 0 has no match and one paragraph.                         *)

MaxLen == 2
MaxPat == 2

PatCounts == [1..4 -> 0..MaxPat]

\* the sources: the scorer reads their length and their math matches only
ScoreSources ==
    {EmptyText}
    \cup {Text(len, 0, 0, 0, 0, 1, pat) : len \in 1..MaxLen, pat \in PatCounts}

ScoreMarkdowns ==
    {EmptyText}
    \cup {Text(len, el[1], el[2], el[3], el[4], para, pat) :
             len \in 1..MaxLen, el \in [1..4 -> 0..1], para \in 1..2,
             pat \in PatCounts}

\* calculateMarkdownCompleteness(extracted, markdown) is called, once in a
\* behaviour: the function has no state
Score(extracted, markdown) ==
    /\ last = NoCall
    /\ last' = [op |-> "calculateMarkdownCompleteness", key |-> Null,
                extracted |-> extracted, markdown |-> markdown,
                parts |-> ScoreParts(extracted, markdown),
                ret |-> calculateMarkdownCompleteness(extracted, markdown)]
    /\ UNCHANGED <<now, cache, rateLimitStore, stored, lru, used, ncalls, run,
                   written, nreq, fin, goc, allowed, mem, multi, sse, req>>

NextScore ==
    /\ last = NoCall
    /\ \E extracted \in ScoreSources, markdown \in ScoreMarkdowns :
           Score(extracted, markdown)

SpecScore == InitIdle /\ [][NextScore]_vars

Scored == last.op = "calculateMarkdownCompleteness"

(* C21: calculateMarkdownCompleteness returns an integer from 0 to 100; its *)
(* four parts are at most 30, 40, 20 and 10 points, and the result is       *)
(* min(100, round(sum of the parts)).                                       *)
C21_ScoreWithinBounds ==
    Scored =>
        LET p == last.parts
            sum == p.length + p.elements * p.den + p.math + p.structure * p.den
        IN  /\ last.ret \in 0..100
            /\ p.den > 0
            /\ 0 <= p.length /\ p.length <= 30 * p.den
            /\ 0 <= p.elements /\ p.elements <= 40
            /\ 0 <= p.math /\ p.math <= 20 * p.den
            /\ p.structure \in {0, 10}
            /\ last.ret = Min(100, RoundDiv(sum, p.den))
            \* round: the integer nearest to the sum, halves upwards
            /\ 2 * last.ret * p.den <= 2 * sum + p.den
            /\ 2 * sum + p.den < 2 * (last.ret + 1) * p.den

\* a markdown longer than its source with every element and every match:
\* each part at its cap, the score 100
C21_Witness ==
    /\ Scored
    /\ last.markdown.len > last.extracted.len
    /\ last.extracted.len > 0
    /\ last.parts.length = 30 * last.parts.den
    /\ last.parts.elements = 40
    /\ last.parts.math = 20 * last.parts.den
    /\ last.parts.structure = 10
    /\ last.ret = 100

\* a score rounded up from a half
C21_WitnessHalf ==
    /\ Scored
    /\ LET p == last.parts
           sum == p.length + p.elements * p.den + p.math + p.structure * p.den
       IN  2 * sum = (2 * last.ret - 1) * p.den

-----------------------------------------------------------------------------
(* SpecKeys: cacheUtils.getFileHash applied to files of up to MaxBytes      *)
(* bytes, and cacheUtils.generateConversionKey called with a file hash,     *)
(* with or without options, once or twice in a row.                         *)

MaxBytes == 3

\* the bytes of the files: NUL, line feed, "A", "B" and a lead byte
HashBytes == {0, 10, 65, 66, 200}

RECURSIVE SeqsUpTo(_, _)
SeqsUpTo(S, n) ==
    IF n = 0 THEN {<<>>}
    ELSE LET shorter == SeqsUpTo(S, n - 1)
         IN  shorter \cup {Append(q, x) : q \in {t \in shorter : Len(t) = n - 1},
                                          x \in S}

HashInputs == SeqsUpTo(HashBytes, MaxBytes)

HexChars == {HexDigits[i] : i \in 1..16}

\* await cacheUtils.getFileHash(file) for a file with these bytes
GetFileHash(bytes) ==
    /\ last' = [op |-> "getFileHash", key |-> Null, bytes |-> bytes,
                ret |-> getFileHash(bytes)]
    /\ UNCHANGED <<now, cache, rateLimitStore, stored, lru, used, ncalls, run,
                   written, nreq, fin, goc, allowed, mem, multi, sse, req>>

Hashed == last.op = "getFileHash"

(* C22: getFileHash returns a string of 16 hex digits for every input, the  *)
(* zero-length input included, always the same for the same bytes, and the  *)
(* hash of the zero-length input differs from that of every other input.    *)
C22_EmptyHashDistinct ==
    Hashed =>
        /\ Len(last.ret) = 16
        /\ \A i \in 1..Len(last.ret) : last.ret[i] \in HexChars
        /\ last.ret = getFileHash(last.bytes)
        /\ last.bytes # <<>> => last.ret # getFileHash(<<>>)

\* options of generateConversionKey: undefined, or an object with the one
\* property "option", a string given as its code units
NoOptions == <<>>
OptionValues == {<<118, 97, 108, 117, 101>>, <<97>>, <<98>>, <<>>}
OptionsSet == {NoOptions} \cup {<<[option |-> v]>> : v \in OptionValues}

\* JSON.stringify(options) of such an object: {"option":"<value>"}
JSONstringify(o) ==
    <<123, 34, 111, 112, 116, 105, 111, 110, 34, 58, 34>> \o o.option \o <<34, 125>>

\* createHash('md5').update(JSON.stringify(options)).digest('hex').slice(0, 8)
OptionsHash(o) == Slice0(Digest(JSONstringify(o)), 8)

\* cacheUtils.generateConversionKey(fileHash, options)
generateConversionKeyFor(fileHash, options) ==
    IF options = NoOptions THEN generateConversionKey(fileHash)
    ELSE <<"conv", fileHash, OptionsHash(options[1])>>

\* the file hashes the keys are made for: the test's 'abc123' and the hash
\* of a file
KeyFileHashes == {<<"a", "b", "c", "1", "2", "3">>, getFileHash(<<65>>)}

\* cacheUtils.generateConversionKey(fileHash, options) is called; history:
\* the call made just before it, if there was one
GenKey(fileHash, options) ==
    /\ last' = [op |-> "generateConversionKey", key |-> Null,
                fileHash |-> fileHash, options |-> options,
                ret |-> generateConversionKeyFor(fileHash, options),
                before |-> IF last.op = "generateConversionKey"
                           THEN <<[fileHash |-> last.fileHash,
                                   options |-> last.options, ret |-> last.ret]>>
                           ELSE <<>>]
    /\ UNCHANGED <<now, cache, rateLimitStore, stored, lru, used, ncalls, run,
                   written, nreq, fin, goc, allowed, mem, multi, sse, req>>

\* a behaviour is one call of getFileHash, or up to two calls of
\* generateConversionKey: the functions have no state
NextKeys ==
    \/ /\ last = NoCall
       /\ \E bytes \in HashInputs : GetFileHash(bytes)
    \/ /\ IF last.op = "generateConversionKey" THEN last.before = <<>>
          ELSE last = NoCall
       /\ \E fileHash \in KeyFileHashes, options \in OptionsSet :
              GenKey(fileHash, options)

SpecKeys == InitIdle /\ [][NextKeys]_vars

(* C23: for one file hash, generateConversionKey returns different keys for *)
(* different options, and for any options a key other than the key without  *)
(* options.                                                                 *)
C23_KeysTellOptionsApart ==
    last.op = "generateConversionKey" =>
        /\ last.options # NoOptions =>
               last.ret # generateConversionKey(last.fileHash)
        /\ \A b \in {last.before[i] : i \in DOMAIN last.before} :
               (b.fileHash = last.fileHash /\ b.options # last.options) =>
                   b.ret # last.ret

-----------------------------------------------------------------------------
(* SpecMulti: one call of OptimizedGeminiConverter.convertMultipleOptimized *)
(* with up to MaxFiles files of two names and two sizes and with            *)
(* maxConcurrentFiles 1..MaxConcurrent (the default is 10).  A step is the  *)
(* code the call runs between two awaits, or the settling of a conversion;  *)
(* the conversions settle in any order and at any time.                     *)

MaxFiles == 4
MaxConcurrent == 2

MultiNames == {"a.pdf", "b.pdf"}
MultiFile == [name : MultiNames, size : 1..2]
MultiFiles == SeqsUpTo(MultiFile, MaxFiles)

\* [...files].sort((a, b) => a.size - b.size): stable, smallest first
RECURSIVE SortBySize(_)
SortBySize(files) ==
    IF files = <<>> THEN <<>>
    ELSE LET x == files[Len(files)]
             rest == SortBySize(SubSeq(files, 1, Len(files) - 1))
             \* x goes behind the files that are not larger
             n == Cardinality({i \in 1..Len(rest) : rest[i].size <= x.size})
         IN  SubSeq(rest, 1, n) \o <<x>> \o SubSeq(rest, n + 1, Len(rest))

\* the tasks of processing whose promise has rejected: none, as
\* convertOptimized catches what the conversion throws
RejectedTasks(m) == {}

\* the for loop after "await Promise.race(processing)": the race of a task
\* with Promise.resolve() never waits and only throws for a rejected task,
\* so every other task is spliced out, settled or not
AfterSplice(m) == [m EXCEPT !.processing = @ \cap RejectedTasks(m)]

\* the while loop from its head to the next await, or to the return
MultiLoop(m) ==
    LET free == m.maxConcurrentFiles - Cardinality(m.processing)
        k == Min(Max(free, 0), Len(m.queue))
        started == {m.queue[i] : i \in 1..k}
        m1 == [m EXCEPT !.queue = SubSeq(@, k + 1, Len(@)),
                        !.processing = @ \cup started,
                        !.running = @ \cup started]
    IN  IF m1.processing # {} THEN [m1 EXCEPT !.pc = "race"]
        ELSE [m1 EXCEPT !.pc = "resolved"]

MultiUnchanged ==
    UNCHANGED <<now, cache, rateLimitStore, last, stored, lru, used, ncalls, run,
                written, nreq, fin, goc, allowed, mem, sse, req>>

\* convertMultipleOptimized(files, {maxConcurrentFiles}) is called and runs
\* up to "await Promise.all(...)" of the files' arrayBuffer()
MultiCall(files, maxConcurrentFiles) ==
    /\ multi.pc = "idle"
    /\ multi' = [NoMultiCall EXCEPT !.pc = "buffers",
                                    !.files = SortBySize(files),
                                    !.maxConcurrentFiles = maxConcurrentFiles]
    /\ MultiUnchanged

\* an arrayBuffer() of the files rejects: the call rejects
MultiBuffersFailed ==
    /\ multi.pc = "buffers"
    /\ multi.files # <<>>
    /\ multi' = [multi EXCEPT !.pc = "rejected"]
    /\ MultiUnchanged

\* the buffers are there: the queue is filled and the loop entered
MultiBuffersDone ==
    /\ multi.pc = "buffers"
    /\ multi' = MultiLoop([multi EXCEPT
                              !.queue = [i \in 1..Len(multi.files) |-> i]])
    /\ MultiUnchanged

\* processFileOptimized of task i: convertOptimized resolved (with a success
\* or a failure), results.set(fileName, result)
MultiTaskDone(i, success) ==
    /\ i \in multi.running
    /\ multi' = [multi EXCEPT
                    !.running = @ \ {i},
                    !.settled = @ \cup {i},
                    !.results = {e \in @ : e.name # multi.files[i].name}
                                \cup {[name |-> multi.files[i].name,
                                       success |-> success, task |-> i]}]
    /\ MultiUnchanged

\* "await Promise.race(processing)" resumes, a task of processing having
\* settled: the for loop, then the while loop again
MultiWake ==
    /\ multi.pc = "race"
    /\ multi.processing \cap multi.settled # {}
    /\ multi' = MultiLoop(AfterSplice(multi))
    /\ MultiUnchanged

NextMulti ==
    \/ \E files \in MultiFiles, n \in 1..MaxConcurrent : MultiCall(files, n)
    \/ MultiBuffersFailed
    \/ MultiBuffersDone
    \/ \E i \in 1..MaxFiles, success \in BOOLEAN : MultiTaskDone(i, success)
    \/ MultiWake

SpecMulti == InitIdle /\ [][NextMulti]_vars

(* C24: convertMultipleOptimized never has more than maxConcurrentFiles     *)
(* conversions in flight at the same time.                                  *)
C24_AtMostMaxInFlight ==
    Cardinality(multi.running) <= multi.maxConcurrentFiles

(* C25: when convertMultipleOptimized resolves, every file's conversion has *)
(* finished and the results map holds a result for every file name.         *)
C25_ResolvedMeansAllDone ==
    multi.pc = "resolved" =>
        /\ multi.running = {}
        /\ multi.settled = 1..Len(multi.files)
        /\ \A i \in 1..Len(multi.files) :
               \E e \in multi.results : e.name = multi.files[i].name

-----------------------------------------------------------------------------
(* SpecStream: the response stream of one request to POST                   *)
(* /api/convert/stream that passed the rate-limit check: start() of the     *)
(* ReadableStream from await to await, the ReadableStreamDefaultController  *)
(* as the Streams standard defines it, and the consumer of the response     *)
(* reading the chunks at any time.                                          *)

\* ReadableStreamDefaultControllerCanCloseOrEnqueue
CanCloseOrEnqueue(st) == ~st.closeRequested /\ st.state = "readable"

\* controller.enqueue(chunk): throws a TypeError when the controller cannot
\* enqueue; hands the chunk to a pending read, or queues it
Enqueue(st, ev) ==
    IF ~CanCloseOrEnqueue(st) THEN [st EXCEPT !.threw = TRUE]
    ELSE IF st.reading
         THEN [st EXCEPT !.sent = Append(@, ev), !.got = Append(@, ev),
                         !.reading = FALSE]
         ELSE [st EXCEPT !.sent = Append(@, ev), !.queue = Append(@, ev)]

\* controller.close(): throws a TypeError when the controller cannot close;
\* the stream is closed at once when the queue is empty, else when the
\* queue has been read
ControllerClose(st) ==
    IF ~CanCloseOrEnqueue(st) THEN [st EXCEPT !.threw = TRUE]
    ELSE IF st.queue = <<>>
         THEN [st EXCEPT !.closeRequested = TRUE, !.state = "closed",
                         !.reading = FALSE]
         ELSE [st EXCEPT !.closeRequested = TRUE]

\* ReadableStreamDefaultControllerError, run when start() rejects: nothing
\* unless the stream is readable; else the queue is reset, the stream errored
ControllerError(st) ==
    IF st.state # "readable" THEN st
    ELSE [st EXCEPT !.queue = <<>>, !.state = "errored", !.reading = FALSE]

\* the call controller.close(), among the events a step sends
CloseCall == Ev("close()", -1)

\* the calls of a step in order, up to the first that throws
RECURSIVE Do(_, _)
Do(st, ops) ==
    IF ops = <<>> \/ st.threw THEN st
    ELSE Do(IF Head(ops) = CloseCall THEN ControllerClose(st)
            ELSE Enqueue(st, Head(ops)),
            Tail(ops))

\* start() runs the calls ops of its try block to the end, or an awaited
\* call has rejected (caught); then the catch block if something was
\* thrown, the finally block, and start() settles
Settle(st, ops, caught) ==
    LET s1 == Do(st, ops)
        s2 == IF caught \/ s1.threw
              THEN Do([s1 EXCEPT !.threw = FALSE], <<Ev("error", -1)>>)
              ELSE s1
        s3 == Do([s2 EXCEPT !.threw = FALSE], <<CloseCall>>)
        rejected == s2.threw \/ s3.threw
        s4 == IF rejected THEN ControllerError(s3) ELSE s3
    IN  [s4 EXCEPT !.pc = "done", !.threw = FALSE, !.rejected = rejected]

StreamUnchanged ==
    UNCHANGED <<now, cache, rateLimitStore, last, stored, lru, used, ncalls, run,
                written, nreq, fin, goc, allowed, mem, multi, req>>

\* new ReadableStream({start}): start() up to "await request.formData()"
SStart ==
    /\ sse.pc = "idle"
    /\ sse' = [Do(NoStream, <<Ev("progress", 0)>>) EXCEPT !.pc = "form"]
    /\ StreamUnchanged

\* formData resolved with the file f (or none): the validation
SForm(f) ==
    /\ sse.pc = "form"
    /\ sse' = IF (IF f.present THEN ~StreamTypeAllowed(f.type) ELSE TRUE)
              THEN Settle(sse, <<Ev("error", -1), CloseCall>>, FALSE)
              ELSE [Do(sse, <<Ev("progress", 20)>>) EXCEPT !.pc = "hash"]
    /\ StreamUnchanged

\* an awaited call rejects: request.formData(), cacheUtils.getFileHash
\* (file.arrayBuffer) or a rejection that converter.convert lets through
SReject ==
    /\ sse.pc \in {"form", "hash", "convert"}
    /\ sse' = Settle(sse, <<>>, TRUE)
    /\ StreamUnchanged

\* getFileHash resolved: the lookup finds an entry (cached) or none; then
\* large: file.size >= 20 MB; hasKey: GEMINI_API_KEY is set
SLookup(cached, large, hasKey) ==
    LET evs == <<Ev("progress", 30)>>
               \o (IF large THEN <<Ev("progress", 35)>> ELSE <<>>)
    IN  /\ sse.pc = "hash"
        /\ sse' = IF cached # <<>>
                  THEN Settle(sse, <<Ev("progress", 90),
                                     EvResult(cached[1].markdown, TRUE),
                                     Ev("complete", -1)>>, FALSE)
                  ELSE IF ~hasKey THEN Settle(Do(sse, evs), <<>>, TRUE)
                  ELSE [Do(sse, evs \o <<Ev("progress", 40)>>) EXCEPT
                           !.pc = "convert"]
        /\ StreamUnchanged

\* converter.convert(file) resolved with conversionResult
SConvert(conversionResult) ==
    /\ sse.pc = "convert"
    /\ sse' = IF ~conversionResult.success
              THEN Settle(sse, <<Ev("error", -1), CloseCall>>, FALSE)
              ELSE Settle(sse, <<Ev("progress", 80), Ev("progress", 90),
                                 Ev("progress", 100),
                                 EvResult(conversionResult.markdown, FALSE),
                                 Ev("complete", -1)>>, FALSE)
    /\ StreamUnchanged

\* the consumer of the response reads: it gets the first chunk of the queue
\* (the last one of a stream asked to close closes it), or its read pends
SRead ==
    /\ sse.pc # "idle"
    /\ sse.state = "readable"
    /\ ~sse.reading
    /\ sse' = IF sse.queue = <<>> THEN [sse EXCEPT !.reading = TRUE]
              ELSE [sse EXCEPT
                       !.got = Append(@, Head(sse.queue)),
                       !.queue = Tail(@),
                       !.state = IF Len(sse.queue) = 1 /\ sse.closeRequested
                                 THEN "closed" ELSE @]
    /\ StreamUnchanged

StreamCached == {<<>>} \cup {<<r>> : r \in {c \in ConvResults : c.success}}

NextStream ==
    \/ SStart
    \/ \E f \in FileSet \cup {NoFile} : SForm(f)
    \/ SReject
    \/ \E cached \in StreamCached, large \in BOOLEAN, hasKey \in BOOLEAN :
           SLookup(cached, large, hasKey)
    \/ \E res \in ConvResults : SConvert(res)
    \/ SRead

SpecStream == InitIdle /\ [][NextStream]_vars

\* the events of the kind named among evs, as places in evs
Places(evs, kind) == {i \in 1..Len(evs) : evs[i].event = kind}

(* C26: when start() has settled, the stream carries exactly one terminal   *)
(* outcome: one 'error' event and no 'result', or one 'result' followed by  *)
(* 'complete' and no 'error'; nothing comes after it; the progress values   *)
(* before it never decrease; and the stream is closed (for good, or as soon *)
(* as the chunks still queued are read), not errored.                       *)
C26_OneOutcomeThenClosed ==
    sse.pc = "done" =>
        LET evs == sse.sent
            n == Len(evs)
        IN  /\ n >= 2
            /\ IF Places(evs, "error") # {}
               THEN /\ Places(evs, "error") = {n}
                    /\ Places(evs, "result") = {}
                    /\ Places(evs, "complete") = {}
               ELSE /\ Places(evs, "result") = {n - 1}
                    /\ Places(evs, "complete") = {n}
            /\ \A i \in Places(evs, "progress") : \A j \in Places(evs, "progress") :
                   i < j => evs[i].progress <= evs[j].progress
            /\ sse.closeRequested
            /\ sse.state # "errored"
            /\ (sse.state = "closed" /\ sse.queue = <<>>) => sse.got = sse.sent

-----------------------------------------------------------------------------
(* SpecMem: calls of processFileWithMemoryControl, one after the other,     *)
(* with files of 0..MaxSize bytes, maxFileSize 1 or 2, enableGC and         *)
(* trackMemory set or not, in a runtime with or without global.gc; the      *)
(* file read and the processor may resolve or reject.                       *)

MaxSize == 3
MemSizes == 0..MaxSize
MemLimits == {1, 2}
MemResults == {"result1", "result2"}

\* a plausible slip: the size precheck left out
TooLargeNever(size, maxFileSize) == FALSE

\* "file.size > maxFileSize": the precheck of processFileWithMemoryControl
TooLarge(size, maxFileSize) == size > maxFileSize

\* tracker.snapshot(label) / tracker.getDiff(label), when trackMemory is set
Tracked(m, label) ==
    IF m.trackMemory THEN [m EXCEPT !.labels = Append(@, label)] ELSE m

\* "if (global.gc) global.gc()"
Gc(m) == IF m.gcExposed THEN [m EXCEPT !.gcs = @ + 1] ELSE m

\* FileBuffer.clear()
BufferClear(m) == Gc([m EXCEPT !.buffer = FALSE, !.clears = @ + 1])

\* the finally block of processFileWithMemoryControl, and the call settles
MemFinally(m, outcome, ret) ==
    LET m1 == BufferClear(m)
        m2 == IF m1.enableGC /\ m1.gcExposed
              THEN [m1 EXCEPT !.gcs = @ + 1, !.hinted = TRUE] ELSE m1
    IN  [Tracked(m2, "cleanup-complete") EXCEPT
            !.pc = "settled", !.outcome = outcome, !.ret = ret]

MemUnchanged ==
    UNCHANGED <<now, cache, rateLimitStore, last, stored, lru, used, ncalls, run,
                written, nreq, fin, goc, allowed, multi, sse, req>>

\* processFileWithMemoryControl(file, processor, options) is called and runs
\* up to "await file.arrayBuffer()" in FileBuffer.load, or throws.
\* lowMemory: load finds file.size > availableMemory * 0.5
MemCall(size, maxFileSize, enableGC, trackMemory, gcExposed, lowMemory) ==
    LET m0 == Tracked([NoMemCall EXCEPT !.size = size, !.maxFileSize = maxFileSize,
                                        !.enableGC = enableGC,
                                        !.trackMemory = trackMemory,
                                        !.gcExposed = gcExposed],
                      "file-process-start")
        m1 == [m0 EXCEPT !.loadCalls = @ + 1]
    IN  /\ mem.pc \in {"idle", "settled"}
        /\ mem' = IF TooLarge(size, maxFileSize)
                  THEN [m0 EXCEPT !.pc = "settled", !.outcome = "too-large",
                                  !.ret = "File too large"]
                  ELSE IF size > maxFileSize
                  THEN MemFinally(m1, "too-large", "File too large")
                  ELSE [(IF lowMemory THEN Gc(m1) ELSE m1) EXCEPT
                            !.pc = "load", !.reads = @ + 1]
        /\ MemUnchanged

\* file.arrayBuffer() resolved: the buffer is kept and the processor called
MemLoaded ==
    /\ mem.pc = "load"
    /\ mem' = [Tracked(mem, "file-loaded") EXCEPT
                  !.pc = "process", !.buffer = TRUE, !.procs = @ + 1]
    /\ MemUnchanged

\* file.arrayBuffer() rejected: the catch of load clears and rethrows
MemLoadFailed ==
    /\ mem.pc = "load"
    /\ mem' = MemFinally(BufferClear(mem), "load-error", "Failed to load file")
    /\ MemUnchanged

\* processor(buffer) resolved with result
MemProcessed(result) ==
    /\ mem.pc = "process"
    /\ mem' = MemFinally(Tracked(mem, "processing-complete"), "ok", result)
    /\ MemUnchanged

\* processor(buffer) rejected
MemProcessFailed ==
    /\ mem.pc = "process"
    /\ mem' = MemFinally(mem, "process-error", "processor failed")
    /\ MemUnchanged

NextMem ==
    \/ \E size \in MemSizes, maxFileSize \in MemLimits,
          enableGC \in BOOLEAN, trackMemory \in BOOLEAN,
          gcExposed \in BOOLEAN, lowMemory \in BOOLEAN :
           MemCall(size, maxFileSize, enableGC, trackMemory, gcExposed, lowMemory)
    \/ MemLoaded
    \/ MemLoadFailed
    \/ \E result \in MemResults : MemProcessed(result)
    \/ MemProcessFailed

SpecMem == InitIdle /\ [][NextMem]_vars

(* C19: a call with file.size > maxFileSize rejects with the file-too-large *)
(* error without having called fileBuffer.load, file.arrayBuffer or the     *)
(* processor; a call with file.size <= maxFileSize calls the processor at   *)
(* most once.                                                               *)
C19_TooLargeNeverProcessed ==
    /\ (mem.pc # "idle" /\ mem.size > mem.maxFileSize) =>
           /\ mem.pc = "settled"
           /\ mem.outcome = "too-large"
           /\ mem.ret = "File too large"
           /\ mem.loadCalls = 0
           /\ mem.reads = 0
           /\ mem.procs = 0
    /\ mem.size <= mem.maxFileSize =>
           /\ mem.procs <= 1
           /\ mem.outcome # "too-large"
           /\ mem.outcome = "ok" => mem.procs = 1

\* a file larger than maxFileSize was rejected
C19_Witness ==
    /\ mem.pc = "settled"
    /\ mem.size > mem.maxFileSize
    /\ mem.outcome = "too-large"
    /\ mem.procs = 0

\* a file of exactly maxFileSize bytes was processed, once
C19_WitnessProcessed ==
    /\ mem.pc = "settled"
    /\ mem.size = mem.maxFileSize
    /\ mem.outcome = "ok"
    /\ mem.procs = 1

(* C20: however a call settles (success, processor error, file-load error,  *)
(* rejection by the size precheck), no file buffer is held any more and,    *)
(* with enableGC set in a runtime that has global.gc, the reclamation hint  *)
(* was issued on the way out.                                               *)
C20_ReleasedOnEveryExit ==
    mem.pc = "settled" =>
        /\ ~mem.buffer
        /\ (mem.enableGC /\ mem.gcExposed) => mem.hinted

-----------------------------------------------------------------------------
(* Spec: HTTP requests to POST /api/convert and POST /api/convert/stream,   *)
(* at most MaxInFlight of them in flight at a time.  A step of a request is *)
(* the code it runs between two awaits; the awaited calls may reject where  *)
(* the runtime lets them; an await whose continuation touches nothing but   *)
(* the request's own data is folded into the step that follows it.  req     *)
(* holds the requests in flight, fin the one that the last step completed.  *)

\* cacheUtils.getFileHash(file) for the files of the requests
FileHash == [f \in FileSet |-> getFileHash(f.bytes)]

\* the requests come from one client, without an x-forwarded-for header
RouteHeaders == {<<>>}

Endpoints == {"json", "stream"}
Files == FileSet \cup {NoFile}
Slots == 1..MaxInFlight

\* history: the markdown first written to each entry now in the cache
WrittenAfter(c1, c2, setKey, markdown) ==
    [k \in ConvKeys |->
        IF ~MapHas(c2, k) THEN <<>>
        ELSE IF k = setKey /\ (~MapHas(c1, k) \/ now >= MapGet(c1, k).expiresAt)
             THEN <<markdown>>
             ELSE written[k]]

\* the JSON request q settles with o: the catch of POST, then withRateLimit
JsonDone(q, o) ==
    [q EXCEPT !.pc = "done",
              !.resp = WithRateLimitTail(PostCatch(o), createRateLimitHeaders(q.rl))]

\* the stream of request q ends with the events evs and n calls of
\* controller.close()
StreamDone(q, evs, n) ==
    [q EXCEPT !.pc = "done", !.events = @ \o evs, !.closes = @ + n]

\* the request in slot r is now q: in flight still, or completed
\* (history: a step after its initial check changed the rate-limit store)
Becomes(r, q) ==
    LET q2 == IF req[r].pc = "idle" THEN q
              ELSE [q EXCEPT !.rlChanged = @ \/ rateLimitStore' # rateLimitStore]
    IN  IF q2.pc = "done"
        THEN /\ req' = [req EXCEPT ![r] = IdleReq]
             /\ fin' = q2
        ELSE /\ req' = [req EXCEPT ![r] = q2]
             /\ fin' = IdleReq

RouteUnchanged == UNCHANGED <<now, last, stored, lru, used, ncalls, run, goc, allowed, mem, multi, sse>>

\* a request arrives: check() of rateLimiters.conversion, then the call of
\* the handler up to "await request.formData()"
Start(r, ep, h, rnd) ==
    LET key == defaultKeyGenerator(h)
        c == RateCheck(rateLimitStore, ConversionLimiter, key, now, rnd)
        q == [IdleReq EXCEPT !.ep = ep, !.rl = c.ret,
                             !.trace = <<"ratelimit">>,
                             !.rlConsumed = c.store[key] # rateLimitStore[key],
                             !.alone = \A x \in Slots : req[x].pc = "idle",
                             !.empty = cache = <<>>]
    IN  /\ req[r].pc = "idle"
        /\ \A x \in Slots : x < r => req[x].pc # "idle"
        /\ nreq < NReq
        /\ nreq' = nreq + 1
        /\ rateLimitStore' = c.store
        /\ Becomes(r,
              IF Denied(c.ret)
              THEN [q EXCEPT !.pc = "done",
                             !.resp = IF ep = "json"
                                      THEN RateLimitedResponse(c.ret)
                                      ELSE StreamRateLimitedResponse(c.ret)]
              ELSE [q EXCEPT !.pc = "form",
                             !.trace = @ \o <<"handler">>,
                             !.resp = IF ep = "json" THEN NoResp ELSE StreamResponse,
                             !.events = IF ep = "json" THEN <<>>
                                        ELSE <<Ev("progress", 0)>>])
        /\ UNCHANGED <<cache, written>>
        /\ RouteUnchanged

\* request.formData() resolved with a form that fails the validation
Invalid(r, f) ==
    LET q == [req[r] EXCEPT !.file = f, !.trace = @ \o <<"validate">>]
    IN  /\ req[r].pc = "form"
        /\ IF q.ep = "json"
           THEN IF f.present THEN ~TypeAllowed(f.type) ELSE TRUE
           ELSE IF f.present THEN ~StreamTypeAllowed(f.type) ELSE TRUE
        /\ UNCHANGED <<rateLimitStore, cache, written, nreq>>
        /\ Becomes(r,
              IF q.ep = "json"
              THEN JsonDone(q, Json(400, ErrorBody(IF f.present THEN "bad type"
                                                   ELSE "no file")))
              ELSE StreamDone(q, <<Ev("error", -1)>>, 2))
        /\ RouteUnchanged

\* an awaited call of the request rejects: request.formData() or
\* file.arrayBuffer() in getFileHash (pc "form"), FileBuffer.load (pc "convert")
Reject(r) ==
    /\ req[r].pc \in (IF req[r].ep = "json" THEN {"form", "convert"} ELSE {"form"})
    /\ UNCHANGED <<rateLimitStore, cache, written, nreq>>
    /\ Becomes(r, IF req[r].ep = "json"
                  THEN JsonDone(req[r], Thrown("rejected"))
                  ELSE StreamDone(req[r], <<Ev("error", -1)>>, 1))
    /\ RouteUnchanged

\* request.formData() resolved with a form that passes the validation, and
\* getFileHash resolved: the key, the cache lookup and what follows it up
\* to the next await.  hasKey: GEMINI_API_KEY is set (stream route, where
\* createGeminiConverter is called in this step).
Lookup(r, f, hasKey) ==
    LET q0 == [req[r] EXCEPT !.file = f, !.trace = @ \o <<"validate">>,
                             !.events = IF @ = <<>> THEN <<>>
                                        ELSE @ \o <<Ev("progress", 20)>>]
        fileHash == FileHash[q0.file]
        cacheKey == generateConversionKey(fileHash)
        g == CacheGet(cache, cacheKey, now)
        cached == g.ret
        live == IF MapHas(cache, cacheKey)
                THEN now < MapGet(cache, cacheKey).expiresAt ELSE FALSE
        q == [q0 EXCEPT !.ckey = cacheKey,
                        !.trace = @ \o <<"hash", "lookup">>,
                        !.cacheOps = @ \cup CacheOpsOf(cache, g.cache, <<>>),
                        !.seen = IF live THEN <<MapGet(cache, cacheKey).data>> ELSE <<>>,
                        !.orig = IF live THEN written[cacheKey] ELSE <<>>,
                        !.peer = \E x \in Slots \ {r} :
                                    /\ req[x].pc = "convert"
                                    /\ req[x].ckey = cacheKey]
    IN  /\ req[r].pc = "form"
        /\ IF q0.ep = "json" THEN TypeAllowed(f.type) /\ hasKey
           ELSE StreamTypeAllowed(f.type)
        /\ cache' = g.cache
        /\ written' = WrittenAfter(cache, g.cache, <<>>, EmptyText)
        /\ UNCHANGED <<rateLimitStore, nreq>>
        /\ Becomes(r,
              IF q.ep = "json"
              THEN IF Truthy(g)
                   THEN JsonDone(q, Json(200, SuccessBody(cached.markdown,
                                     cached.metadata.title, cached.quality, TRUE)))
                   ELSE IF FileSize(q.file) > ConvOptions.maxFileSize
                        THEN JsonDone(q, Thrown("File too large"))
                        ELSE [q EXCEPT !.pc = "convert"]
              ELSE IF Truthy(g)
                   THEN StreamDone(q, <<Ev("progress", 90),
                                        EvResult(cached.markdown, TRUE),
                                        Ev("complete", -1)>>, 1)
                   ELSE LET evs == <<Ev("progress", 30)>>
                                   \o (IF LargeFile(q.file)
                                       THEN <<Ev("progress", 35)>> ELSE <<>>)
                        IN  IF ~hasKey
                            THEN StreamDone(q, evs \o <<Ev("error", -1)>>, 1)
                            ELSE [q EXCEPT !.pc = "convert",
                                           !.trace = @ \o <<"extract">>,
                                           !.events = @ \o evs \o <<Ev("progress", 40)>>])
        /\ RouteUnchanged

\* JSON route: FileBuffer.load resolved and createGeminiConverter threw
NoApiKey(r) ==
    /\ req[r].pc = "convert"
    /\ req[r].ep = "json"
    /\ UNCHANGED <<rateLimitStore, cache, written, nreq>>
    /\ Becomes(r, JsonDone([req[r] EXCEPT !.trace = @ \o <<"load">>],
                           Thrown("GEMINI_API_KEY")))
    /\ RouteUnchanged

\* converter.convert(file) resolved with conversionResult (JSON route:
\* after FileBuffer.load resolved and the converter was created)
ConvertDone(r, conversionResult) ==
    LET q == req[r]
        o == ConvertOutcome(cache, q.ckey, conversionResult, now)
    IN  /\ q.pc = "convert"
        /\ UNCHANGED <<rateLimitStore, nreq>>
        /\ IF q.ep = "json"
           THEN /\ cache' = o.cache
                /\ written' = WrittenAfter(cache, o.cache, q.ckey,
                                           conversionResult.markdown)
                /\ Becomes(r,
                      JsonDone([q EXCEPT
                          !.cacheOps = @ \cup CacheOpsOf(cache, o.cache, q.ckey),
                          !.trace = @ \o <<"load", "extract">>
                                      \o (IF o.resp.status = 200
                                          THEN <<"score", "cache">> ELSE <<>>)],
                          o.resp))
           ELSE /\ UNCHANGED <<cache, written>>
                /\ Becomes(r,
                      IF ~conversionResult.success
                      THEN StreamDone(q, <<Ev("error", -1)>>, 2)
                      ELSE StreamDone(q, <<Ev("progress", 80), Ev("progress", 90),
                                           Ev("progress", 100),
                                           EvResult(conversionResult.markdown, FALSE),
                                           Ev("complete", -1)>>, 1))
        /\ RouteUnchanged

\* time passes between the steps of the requests
RouteTick ==
    /\ now < MaxTick * TickMs
    /\ now' = now + TickMs
    /\ fin' = IdleReq
    /\ UNCHANGED <<cache, rateLimitStore, written, nreq, req>>
    /\ UNCHANGED <<last, stored, lru, used, ncalls, run, goc, allowed, mem, multi, sse>>

Next ==
    \/ RouteTick
    \/ \E r \in Slots, ep \in Endpoints, h \in RouteHeaders, rnd \in RndChoices :
           Start(r, ep, h, rnd)
    \/ \E r \in Slots, f \in Files : Invalid(r, f)
    \/ \E r \in Slots : Reject(r)
    \/ \E r \in Slots, f \in FileSet, hasKey \in BOOLEAN : Lookup(r, f, hasKey)
    \/ \E r \in Slots : NoApiKey(r)
    \/ \E r \in Slots, res \in ConvResults : ConvertDone(r, res)

Spec == InitIdle /\ [][Next]_vars

\* the phases of the conversion pipeline among the steps a request passed
Pipeline(trace) ==
    SelectSeq(trace, LAMBDA x : x \in {"ratelimit", "hash", "lookup",
                                     "extract", "score", "cache"})

\* the rate-limit headers a response must carry for the result of a check
HeadersOf(rl) ==
    [limit |-> rl.limit, remaining |-> rl.remaining,
     reset |-> CeilDiv(rl.resetTime, 1000), retryAfter |-> rl.retryAfter]

(* C1: on POST /api/convert, a request whose lookup finds the entry that an *)
(* earlier successful request stored for the same bytes, not yet expired or *)
(* evicted, is served from the cache: no extraction, no scoring, and the    *)
(* markdown and the quality returned are the stored ones.                   *)
C1_ServedFromCache ==
    (fin.pc = "done" /\ fin.ep = "json" /\ fin.seen # <<>>) =>
        /\ fin.resp.status = 200
        /\ fin.resp.body.kind = "success"
        /\ fin.resp.body.fromCache
        /\ fin.resp.body.markdown = fin.seen[1].markdown
        /\ fin.resp.body.qualityAnalysis = fin.seen[1].quality
        /\ \A i \in DOMAIN fin.trace : fin.trace[i] \notin {"extract", "score"}

\* the second of two requests, arrived when the first had completed, is
\* served the non-empty markdown that the first stored
C1_Witness ==
    /\ fin.pc = "done"
    /\ fin.ep = "json"
    /\ nreq = 2
    /\ fin.alone
    /\ fin.seen # <<>>
    /\ fin.resp.status = 200
    /\ fin.resp.body.fromCache
    /\ fin.resp.body.markdown.len > 0

(* C3: a request that check() refuses gets a 429 response carrying the      *)
(* retry-after value and the handler is not called for it (no hashing, no   *)
(* lookup, no extraction, no cache access); for a request that check()      *)
(* lets through the handler is called exactly once.                         *)
C3_DeniedSkipsHandler ==
    /\ (fin.pc = "done" /\ fin.ep = "json" /\ ~fin.rl.success) =>
          /\ fin.trace = <<"ratelimit">>
          /\ fin.cacheOps = {}
          /\ fin.resp.status = 429
          /\ fin.rl.retryAfter # <<>>
          /\ fin.resp.body.retryAfter = fin.rl.retryAfter
          /\ fin.resp.headers # <<>>
          /\ fin.resp.headers[1].retryAfter = fin.rl.retryAfter
    /\ \A q \in {fin} \cup {req[r] : r \in Slots} :
          (q.ep = "json" /\ q.rl.success) =>
              Cardinality({i \in DOMAIN q.trace : q.trace[i] = "handler"}) = 1

\* a request over the limit has been refused
C3_Witness ==
    /\ fin.pc = "done"
    /\ fin.ep = "json"
    /\ ~fin.rl.success
    /\ fin.resp.status = 429

(* C4: POST /api/convert always settles with a response, never with a       *)
(* thrown error: a success body with status 200, or an error body with a    *)
(* 4xx/5xx status, in both cases with the rate-limit headers of the         *)
(* request's initial check.                                                 *)
C4_AlwaysAResponse ==
    (fin.pc = "done" /\ fin.ep = "json") =>
        /\ ~fin.resp.thrown
        /\ IF fin.resp.status = 200
           THEN fin.resp.body.kind = "success"
           ELSE fin.resp.status \in 400..599 /\ fin.resp.body.kind = "error"
        /\ fin.resp.headers = <<HeadersOf(fin.rl)>>

\* the size check threw after the lookup, and the caller got a 500 response
C4_Witness ==
    /\ fin.pc = "done"
    /\ fin.ep = "json"
    /\ fin.resp.status = 500
    /\ fin.resp.body.error = "File too large"
    /\ fin.resp.headers # <<>>

\* a request to POST /api/convert ended in failure: the converter failed or
\* a step threw
Failed(q) ==
    /\ q.pc = "done"
    /\ q.ep = "json"
    /\ q.rl.success
    /\ q.resp.status = 500

(* C5 as stated: a failed request to POST /api/convert leaves the cache     *)
(* exactly as it was and changes the rate-limit state by the count of its   *)
(* initial check only.                                                      *)
C5_FailureLeavesCacheAlone ==
    Failed(fin) => fin.cacheOps = {} /\ fin.rlConsumed /\ ~fin.rlChanged

(* C5: a failed request to POST /api/convert writes no entry and touches no *)
(* live entry of the cache: all it can do to the cache is remove, at its    *)
(* lookup, the expired entry of its own key; the rate-limit state it        *)
(* changes by the count of its initial check only.                          *)
C5_FailureWritesNothing ==
    Failed(fin) =>
        /\ fin.cacheOps \subseteq {"purge"}
        /\ fin.rlConsumed
        /\ ~fin.rlChanged

\* a request whose lookup removed the expired entry of its key failed
C5_Witness ==
    /\ Failed(fin)
    /\ fin.cacheOps = {"purge"}
    /\ "extract" \in {fin.trace[i] : i \in DOMAIN fin.trace}

\* the form of the request was read and had no file, or a file of a type
\* that is neither PDF nor image
BadForm(q) ==
    /\ q.pc = "done"
    /\ q.ep = "json"
    /\ "validate" \in {q.trace[i] : i \in DOMAIN q.trace}
    /\ IF q.file.present THEN q.file.type = "text/plain" ELSE TRUE

(* C6 as stated: a request without a file or with a disallowed MIME type is *)
(* rejected with 400 before any rate-limiter or cache interaction: the      *)
(* rate-limit count and the cache are unchanged by it.                      *)
C6_RejectedBeforeLimiter ==
    BadForm(fin) =>
        /\ fin.resp.status = 400
        /\ ~fin.rlConsumed
        /\ fin.cacheOps = {}

(* C6: a request that the rate limiter let through and whose form has no    *)
(* file or a file of a disallowed MIME type is rejected with 400 before any *)
(* hashing or cache interaction; the cache is unchanged by it, and its      *)
(* initial check has consumed one count of the rate limit.                  *)
C6_RejectedBeforeCache ==
    BadForm(fin) =>
        /\ fin.resp.status = 400
        /\ fin.cacheOps = {}
        /\ fin.ckey = <<>>
        /\ \A i \in DOMAIN fin.trace : fin.trace[i] \notin {"hash", "lookup", "extract"}
        /\ fin.rl.success
        /\ fin.rlConsumed
        /\ ~fin.rlChanged

\* a text/plain upload was rejected while the cache held an entry
C6_Witness ==
    /\ BadForm(fin)
    /\ fin.file.present
    /\ fin.resp.status = 400
    /\ cache # <<>>

(* C7: a cache hit returns the markdown that was first written to the entry *)
(* since it was last absent or expired, also when requests for the same     *)
(* bytes overlap and the extraction returns different texts.                *)
C7_HitReturnsFirstWritten ==
    (fin.pc = "done" /\ fin.ep = "json" /\ fin.seen # <<>>
        /\ fin.resp.status = 200) =>
        fin.resp.body.fromCache /\ <<fin.resp.body.markdown>> = fin.orig

\* the request succeeded and was not served from the cache
SucceededWithoutHit(q) ==
    /\ q.pc = "done"
    /\ IF q.ep = "json"
       THEN q.resp.status = 200 /\ ~q.resp.body.fromCache
       ELSE \E i \in DOMAIN q.events :
               q.events[i].event = "result" /\ ~q.events[i].fromCache

(* C8: a request that succeeds without a cache hit has passed, in this      *)
(* order, the rate-limit check, hashing, the cache lookup, extraction,      *)
(* quality scoring and the cache write, on /api/convert and on              *)
(* /api/convert/stream.                                                     *)
C8_PipelineOrder ==
    SucceededWithoutHit(fin) =>
        Pipeline(fin.trace) = <<"ratelimit", "hash", "lookup", "extract",
                                "score", "cache">>


-----------------------------------------------------------------------------
(* SpecOverlap: overlapping work for one key, on either interface: calls of *)
(* getOrCompute on the small cache (NextGoc), or requests to the two        *)
(* routes (Next).  A behaviour stays with the interface it started with.    *)

CallsOnly == nreq = 0
RequestsOnly == ncalls = 0

NextOverlap ==
    \/ CallsOnly /\ Tick
    \/ \E k \in GocNames : CallsOnly /\ GSet(k, "value1", NoTtl)
    \/ \E k \in GocNames : CallsOnly /\ GCall(k, NoTtl)
    \/ \E i \in 1..MaxInFlight, v \in GocValues : CallsOnly /\ GResolve(i, v)
    \/ \E i \in 1..MaxInFlight, e \in GocErrors : CallsOnly /\ GReject(i, e)
    \/ RequestsOnly /\ RouteTick
    \/ \E r \in Slots, ep \in Endpoints, h \in RouteHeaders, rnd \in RndChoices :
           RequestsOnly /\ Start(r, ep, h, rnd)
    \/ \E r \in Slots, f \in Files : RequestsOnly /\ Invalid(r, f)
    \/ \E r \in Slots : RequestsOnly /\ Reject(r)
    \/ \E r \in Slots, f \in FileSet, hasKey \in BOOLEAN :
           RequestsOnly /\ Lookup(r, f, hasKey)
    \/ \E r \in Slots : RequestsOnly /\ NoApiKey(r)
    \/ \E r \in Slots, res \in ConvResults : RequestsOnly /\ ConvertDone(r, res)

SpecOverlap == InitIdle /\ [][NextOverlap]_vars

\* the JSON request q has completed after looking its key up
LookedUp(q) ==
    /\ q.pc = "done"
    /\ q.ep = "json"
    /\ "lookup" \in {q.trace[i] : i \in DOMAIN q.trace}

(* C15 as stated: two getOrCompute calls, or two conversion requests, for   *)
(* the same key, absent from the cache, that overlap in time both invoke    *)
(* the compute function / the extraction, and the cache then holds the      *)
(* value of the one that finished last.  For a request: it arrived while    *)
(* the cache held no entry, so an entry its lookup finds was written by a   *)
(* request for the same key in flight at the same time.                     *)
C15_OverlappingBothCompute ==
    /\ (Returned /\ last.call.overlap) => last.computed
    /\ (Returned /\ last.computed /\ ~last.thrown) =>
           /\ MapHas(cache, last.call.key)
           /\ MapGet(cache, last.call.key).data = last.ret
    /\ (LookedUp(fin) /\ fin.empty) =>
           /\ fin.seen = <<>>
           /\ fin.resp.status = 200 =>
                  "extract" \in {fin.trace[i] : i \in DOMAIN fin.trace}

(* C15: a getOrCompute call, or a conversion request, whose lookup finds no *)
(* unexpired entry of its key (so also each of two whose lookups both run   *)
(* before either has written) is never given the result of another: the     *)
(* call invokes its compute function; the request invokes the extraction    *)
(* itself unless it fails, and when it succeeds it was not served from the  *)
(* cache.  Each one that resolves or succeeds writes its value over the     *)
(* entry of the key, so the cache then holds the value of the last writer.  *)
C15_BothMissBothCompute ==
    /\ (Returned /\ (last.call.overlap \/ last.call.seen = <<>>)) => last.computed
    /\ (Returned /\ last.computed /\ ~last.thrown) =>
           /\ MapHas(cache, last.call.key)
           /\ MapGet(cache, last.call.key).data = last.ret
    /\ (LookedUp(fin) /\ fin.seen = <<>>) =>
           IF fin.resp.status = 200
           THEN /\ ~fin.resp.body.fromCache
                /\ "extract" \in {fin.trace[i] : i \in DOMAIN fin.trace}
                /\ MapHas(cache, fin.ckey)
                /\ MapGet(cache, fin.ckey).data.markdown = fin.resp.body.markdown
           ELSE /\ fin.resp.status = 500
                /\ "write" \notin fin.cacheOps

\* a request that missed while another that had missed the same key was in
\* flight succeeds after it and replaces the markdown the other wrote
C15_Witness ==
    /\ LookedUp(fin)
    /\ fin.peer
    /\ fin.seen = <<>>
    /\ fin.resp.status = 200
    /\ written[fin.ckey] # <<>>
    /\ written[fin.ckey] # <<fin.resp.body.markdown>>
    /\ MapGet(cache, fin.ckey).data.markdown = fin.resp.body.markdown

\* two overlapping getOrCompute calls for an absent key: the second to
\* resolve leaves its value in the cache
C15_WitnessCalls ==
    /\ Returned
    /\ last.call.overlap
    /\ last.computed
    /\ ~last.thrown
    /\ goc = <<>>
    /\ MapGet(cache, last.call.key).data = last.ret

=============================================================================
